---- MODULE Spec2Model ----
(***************************************************************************)
(* Model of the onboarder dependency-graph pipeline:                       *)
(*   - DependencyService.resolveImport  (pure, over a file-system world)    *)
(*   - DependencyService.generate       (concurrent per-file tasks)         *)
(*   - Renderer / GraphEngine click disambiguation and selection state      *)
(*                                                                         *)
(* A path is a sequence of segments, a segment is a sequence of name       *)
(* tokens joined by dots: <<"b","ts">> is the segment b.ts, and            *)
(* << <<"ws">>, <<"lib">>, <<"c","ts">> >> is the absolute path            *)
(* /ws/lib/c.ts .  An import string is the sequence of its '/'-separated   *)
(* segments: "./b" is << <<".">>, <<"b">> >>.                              *)
(***************************************************************************)
EXTENDS Integers, Sequences, FiniteSets, TLC

VARIABLES
    \* ---- the world handed to the graph build
    disk,             \* set of absolute paths that exist as regular files
    files,            \* getWorkspaceFiles(): the known files, in enumeration order
    languageMapping,  \* config.languageMapping: extension -> language name
    content,          \* per known file: the import strings its text holds, in text order
    \* ---- DependencyService.generate
    phase,            \* "idle" | "running" | "returned" | "thrown"
    nodes,            \* Node[] being built
    edges,            \* Edge[] being built (shared by the per-file tasks)
    fileToNodeId,     \* Map fsPath -> node id
    task,             \* per known file: the position of its async callback
    errors,           \* errors[] : files whose callback reached the catch
    result,           \* the value generate() resolved with
    \* ---- one resolveImport call (pure-function harness)
    call,             \* the last resolveImport call and what it returned
    \* ---- the webview: clock, Layout, GraphEngine, InputManager
    now,              \* Date.now()
    isRunning,        \* GraphEngine.isRunning
    layoutNodes,      \* Layout.nodes (ids)
    layoutLinks,      \* Layout.links (<<source id, target id>>)
    alphaTarget,      \* simulation.alphaTarget(), in tenths
    pinned,           \* ids of the nodes with fx/fy set
    engineSelectedNodeId,  \* GraphEngine.selectedNodeId
    isPanEnabled,     \* InputManager.isPanEnabled
    panDragging,      \* InputManager.isDragging
    \* ---- Renderer
    selectedNodeId,   \* Renderer.selectedNodeId
    selectedClusterId,     \* Renderer.selectedClusterId
    highlightNeighbors,    \* Renderer.highlightNeighbors
    nodesMap,         \* ids that have a sprite
    rendered,         \* Renderer.render has been called since construction or dispose()
    sprite,           \* per sprite: listening (move/up handlers attached), isDragging
    lastClick,        \* per sprite: _lastClick of the node object it closes over (0: unset)
    plateGfx,         \* the plate shapes of the last render: plate id -> its lastClickTime
    stageDown,        \* stageDownPos # null
    lastStageClickTime,
    \* ---- environment and observation
    pointer,          \* what the pressed pointer went down on ("none" when released)
    lastReport,       \* the last callback the renderer made: kind, shape id, click count
    \* ---- Renderer's camera and its animation loops
    camera,           \* container.x and container.scale (thousandths)
    rafQueue,         \* the pending requestAnimationFrame callbacks, in registration order
    lastLook,         \* the arguments of the most recent smoothLookAt call
    looks,            \* number of smoothLookAt calls made
    \* ---- InputManager's zoom state (thousandths)
    scale,            \* InputManager.scale
    minScale,         \* InputManager.minScale
    \* ---- GraphServer and its cache file
    storage,          \* context.storageUri is defined
    isDirty,          \* GraphServer.isDirty
    cacheFile,        \* graph_cache.json: absent, being written, or holding a graph
    srcVersion,       \* how many times the watched workspace files have changed
    req,              \* per /api/graph request: position in getGraphDataWithCache
    \* ---- calls of the pure functions (harness)
    landCall,         \* the last computeLandforms call and what it returned
    parseCall,        \* the last parseImports call and what it returned
    \* ---- lifecycle
    disposed,         \* GraphEngine.dispose() has been called
    listeners         \* the listeners InputManager has attached: event type and function

buildVars == <<phase, nodes, edges, fileToNodeId, task, errors, result>>
worldVars == <<disk, files, languageMapping, content>>
cameraVars == <<camera, rafQueue, lastLook, looks>>
zoomVars == <<scale, minScale>>
cacheVars == <<storage, isDirty, cacheFile, srcVersion, req>>
harnessVars == <<landCall, parseCall, disposed, listeners>>
sideVars == <<cameraVars, zoomVars, cacheVars, harnessVars>>
nonUiVars == <<disk, files, languageMapping, content, phase, nodes, edges, fileToNodeId,
               task, errors, result, call, sideVars>>
uiVars == <<now, isRunning, layoutNodes, layoutLinks, alphaTarget, pinned,
            engineSelectedNodeId, isPanEnabled, panDragging, selectedNodeId,
            selectedClusterId, highlightNeighbors, nodesMap, rendered, sprite, lastClick, plateGfx,
            stageDown, lastStageClickTime, pointer, lastReport>>
coreVars == <<worldVars, buildVars, call, uiVars, harnessVars>>
nonCameraVars == <<coreVars, zoomVars, cacheVars>>
vars == <<disk, files, languageMapping, content, phase, nodes, edges, fileToNodeId,
          task, errors, result, call, uiVars, sideVars>>

(***************************************************************************)
(* Bounds                                                                   *)
(***************************************************************************)
MaxImports == 2     \* import statements held by the texts of the workspace, in total
MaxTicks == 1       \* clock steps of TimeStep ms that a run of the webview spans

(***************************************************************************)
(* Sequence helpers                                                         *)
(***************************************************************************)
Range(s) == {s[i] : i \in 1..Len(s)}

RECURSIVE Concat(_)
Concat(ss) == IF ss = <<>> THEN <<>> ELSE Head(ss) \o Concat(Tail(ss))

Last(s) == s[Len(s)]
Front(s) == SubSeq(s, 1, Len(s) - 1)

IsPrefix(p, q) == Len(p) <= Len(q) /\ SubSeq(q, 1, Len(p)) = p

(***************************************************************************)
(* Path algebra (node's path module, POSIX flavour)                         *)
(***************************************************************************)
Dot == <<".">>
DotDot == <<"..">>

\* the empty segment: what stands between two slashes, or after a trailing one
Slash == <<"">>
hasTrailingSlash(p) == p # <<>> /\ Last(p) = Slash
squeeze(p) == SelectSeq(p, LAMBDA seg : seg # Slash)

\* path normalisation done by path.resolve / path.join: "." and empty segments are
\* dropped and ".." removes the segment before it (nothing above the file-system root).
RECURSIVE Normalize(_, _)
Normalize(acc, segs) ==
    IF segs = <<>> THEN acc
    ELSE IF Head(segs) \in {Dot, Slash} THEN Normalize(acc, Tail(segs))
    ELSE IF Head(segs) = DotDot
         THEN Normalize(IF acc = <<>> THEN <<>> ELSE Front(acc), Tail(segs))
    ELSE Normalize(Append(acc, Head(segs)), Tail(segs))

dirname(p) == IF squeeze(p) = <<>> THEN <<>> ELSE Front(squeeze(p))

\* path.join keeps a trailing separator, path.resolve removes it
pathJoin(base, segs) ==
    LET n == Normalize(<<>>, base \o segs)
    IN IF hasTrailingSlash(base \o segs) /\ n # <<>> THEN Append(n, Slash) ELSE n
pathResolve(base, segs) == Normalize(<<>>, base \o segs)

\* path.extname(p).toLowerCase(): the last dot-token of the last segment, "" if none
extname(p) ==
    IF p = <<>> \/ Len(Last(p)) < 2 THEN "" ELSE Last(Last(p))

\* importPath.startsWith('.')
startsWithDot(importPath) ==
    importPath # <<>> /\ Head(importPath) \in {Dot, DotDot}

(***************************************************************************)
(* File-system predicates (fs.existsSync / fs.lstatSync)                    *)
(***************************************************************************)
isFile(p) == ~hasTrailingSlash(p) /\ squeeze(p) \in disk
isDirectory(p) == \E f \in disk : Len(squeeze(p)) < Len(f) /\ IsPrefix(squeeze(p), f)
existsSync(p) == isFile(p) \/ isDirectory(p)

(***************************************************************************)
(* The workspace universe                                                   *)
(***************************************************************************)
rootPath == << <<"ws">> >>

F_a   == rootPath \o << <<"a", "ts">> >>                  \* /ws/a.ts
F_b   == rootPath \o << <<"b", "ts">> >>                  \* /ws/b.ts
F_c   == rootPath \o << <<"lib">>, <<"c", "ts">> >>       \* /ws/lib/c.ts
F_pl  == rootPath \o << <<"pkg">>, <<"lib", "ts">> >>     \* /ws/pkg/lib.ts
F_sb  == rootPath \o << <<"src">>, <<"b", "ts">> >>       \* /ws/src/b.ts
F_pld == rootPath \o << <<"pkg">>, <<"lib">>, <<"d", "ts">> >>   \* /ws/pkg/lib/d.ts
F_bjs == rootPath \o << <<"b", "js">> >>                  \* /ws/b.js

\* enumeration order of vscode.workspace.findFiles
Universe == <<F_a, F_b, F_c, F_pl, F_sb, F_pld>>
BuildUniverse == <<F_a, F_b, F_c>>

I_relB   == << Dot, <<"b">> >>            \* "./b"
I_b      == << <<"b">> >>                 \* "b"
I_pkgLib == << <<"pkg">>, <<"lib">> >>    \* "pkg/lib"
I_xLib   == << <<"x">>, <<"lib">> >>      \* "x/lib"
I_relLib == << Dot, <<"lib">> >>          \* "./lib"
I_dot    == << Dot >>                     \* "."
I_libSlash == << <<"lib">>, Slash >>      \* "lib/"

ImportUniverse == <<I_relB, I_b, I_pkgLib, I_xLib, I_relLib, I_dot, I_libSlash>>

(***************************************************************************)
(* DependencyService.resolveImport                                          *)
(***************************************************************************)
\* the extensions array: a suffix either extends the last segment by a dot-token
\* (".ts") or adds a segment ("/index.ts")
extensions ==
    << [slash |-> FALSE, seg |-> <<"ts">>],  [slash |-> FALSE, seg |-> <<"tsx">>],
       [slash |-> FALSE, seg |-> <<"js">>],  [slash |-> FALSE, seg |-> <<"jsx">>],
       [slash |-> FALSE, seg |-> <<"py">>],  [slash |-> FALSE, seg |-> <<"go">>],
       [slash |-> FALSE, seg |-> <<"java">>],
       [slash |-> TRUE, seg |-> <<"index", "ts">>],
       [slash |-> TRUE, seg |-> <<"index", "js">>],
       [slash |-> TRUE, seg |-> <<"index", "tsx">>] >>

\* candidate + ext  (string concatenation)
withExt(candidate, ext) ==
    IF ext.slash THEN Append(candidate, ext.seg)
    ELSE IF candidate = <<>> THEN << <<"">> \o ext.seg >>
    ELSE Append(Front(candidate), Last(candidate) \o ext.seg)

checkFile_firstOnly(candidate) ==
    LET all == (IF existsSync(candidate) /\ isFile(candidate) THEN <<candidate>> ELSE <<>>)
               \o Concat([k \in 1..Len(extensions) |->
                            LET w == withExt(candidate, extensions[k])
                            IN IF existsSync(w) /\ isFile(w) THEN <<w>> ELSE <<>>])
    IN IF all = <<>> THEN <<>> ELSE <<Head(all)>>

checkFile(candidate) ==
    (IF existsSync(candidate) /\ isFile(candidate) THEN <<candidate>> ELSE <<>>)
    \o Concat([k \in 1..Len(extensions) |->
                 LET w == withExt(candidate, extensions[k])
                 IN IF existsSync(w) /\ isFile(w) THEN <<w>> ELSE <<>>])

checkDir(candidate, allFiles) ==
    IF existsSync(candidate) /\ isDirectory(candidate)
    THEN SelectSeq(allFiles, LAMBDA f : dirname(f) = candidate)
    ELSE <<>>

RECURSIVE fuzzyLoop_stopAtExisting(_, _, _, _)
fuzzyLoop_stopAtExisting(parts, i, root, allFiles) ==
    IF i > Len(parts) THEN <<>>
    ELSE LET candidateFuzzy == pathJoin(root, SubSeq(parts, i, Len(parts)))
         IN IF SubSeq(parts, i, Len(parts)) # <<Slash>> /\ existsSync(candidateFuzzy)
            THEN IF isDirectory(candidateFuzzy) THEN checkDir(candidateFuzzy, allFiles)
                 ELSE <<candidateFuzzy>>
            ELSE fuzzyLoop_stopAtExisting(parts, i + 1, root, allFiles)

\* one pass of the fuzzy loop, from index i (1-based) of parts
RECURSIVE fuzzyLoop(_, _, _, _)
fuzzyLoop(parts, i, root, allFiles) ==
    IF i > Len(parts) THEN <<>>
    ELSE LET suffix == SubSeq(parts, i, Len(parts))
             candidateFuzzy == pathJoin(root, suffix)
             hits == IF suffix # <<Slash>> /\ existsSync(candidateFuzzy)
                     THEN IF isDirectory(candidateFuzzy)
                          THEN checkDir(candidateFuzzy, allFiles)
                          ELSE IF isFile(candidateFuzzy) THEN <<candidateFuzzy>> ELSE <<>>
                     ELSE <<>>
         IN IF hits # <<>> THEN hits ELSE fuzzyLoop(parts, i + 1, root, allFiles)

\* resolveImport with the list of the strategies it executed (ran) next to its hits
resolveImportRan_fuzzyAlways(importPath, sourceFile, root, allFiles) ==
    IF startsWithDot(importPath)
    THEN LET absolutePath == pathResolve(dirname(sourceFile), importPath)
             h1 == checkFile(absolutePath)
             h2 == IF h1 = <<>> THEN checkDir(absolutePath, allFiles) ELSE h1
         IN [hits |-> h2, ran |-> <<"relative">>]
    ELSE LET candidateRoot == pathJoin(root, importPath)
             a1 == checkFile(candidateRoot)
             a2 == IF a1 = <<>> THEN checkDir(candidateRoot, allFiles) ELSE a1
             candidateSrc == pathJoin(root, << <<"src">> >> \o importPath)
             b1 == IF a2 = <<>> THEN checkFile(candidateSrc) ELSE a2
             b2 == IF b1 = <<>> THEN checkDir(candidateSrc, allFiles) ELSE b1
             c1 == b2 \o fuzzyLoop(importPath, 1, root, allFiles)
         IN [hits |-> c1,
             ran  |-> <<"root">> \o (IF a2 = <<>> THEN <<"src">> ELSE <<>>) \o <<"fuzzy">>]

resolveImportRan_srcFirst(importPath, sourceFile, root, allFiles) ==
    IF startsWithDot(importPath)
    THEN LET absolutePath == pathResolve(dirname(sourceFile), importPath)
             h1 == checkFile(absolutePath)
             h2 == IF h1 = <<>> THEN checkDir(absolutePath, allFiles) ELSE h1
         IN [hits |-> h2, ran |-> <<"relative">>]
    ELSE LET candidateSrc == pathJoin(root, << <<"src">> >> \o importPath)
             b1 == checkFile(candidateSrc)
             b2 == IF b1 = <<>> THEN checkDir(candidateSrc, allFiles) ELSE b1
             candidateRoot == pathJoin(root, importPath)
             a1 == IF b2 = <<>> THEN checkFile(candidateRoot) ELSE b2
             a2 == IF a1 = <<>> THEN checkDir(candidateRoot, allFiles) ELSE a1
             c1 == IF a2 = <<>> THEN fuzzyLoop(importPath, 1, root, allFiles) ELSE a2
         IN [hits |-> c1,
             ran  |-> <<"src">> \o (IF b2 = <<>> THEN <<"root">> ELSE <<>>)
                      \o (IF a2 = <<>> THEN <<"fuzzy">> ELSE <<>>)]

resolveImportRan(importPath, sourceFile, root, allFiles) ==
    IF startsWithDot(importPath)
    THEN \* 1. Relative imports
         LET absolutePath == pathResolve(dirname(sourceFile), importPath)
             h1 == checkFile(absolutePath)
             h2 == IF h1 = <<>> THEN checkDir(absolutePath, allFiles) ELSE h1
         IN [hits |-> h2, ran |-> <<"relative">>]
    ELSE \* 2. Absolute / package imports
         LET \* A. Root-relative
             candidateRoot == pathJoin(root, importPath)
             a1 == checkFile(candidateRoot)
             a2 == IF a1 = <<>> THEN checkDir(candidateRoot, allFiles) ELSE a1
             \* B. Src-relative
             candidateSrc == pathJoin(root, << <<"src">> >> \o importPath)
             b1 == IF a2 = <<>> THEN checkFile(candidateSrc) ELSE a2
             b2 == IF b1 = <<>> THEN checkDir(candidateSrc, allFiles) ELSE b1
             \* C. Fuzzy workspace match
             c1 == IF b2 = <<>> THEN fuzzyLoop(importPath, 1, root, allFiles) ELSE b2
         IN [hits |-> c1,
             ran  |-> <<"root">> \o (IF a2 = <<>> THEN <<"src">> ELSE <<>>)
                      \o (IF b2 = <<>> THEN <<"fuzzy">> ELSE <<>>)]

resolveImport(importPath, sourceFile, root, allFiles) ==
    resolveImportRan(importPath, sourceFile, root, allFiles).hits

(***************************************************************************)
(* DependencyService.generate                                               *)
(***************************************************************************)
NoResult == [nodes |-> <<>>, edges |-> <<>>, set |-> FALSE]

\* String.prototype.toLowerCase on the language names a configuration holds
toLowerCase(name) ==
    CASE name = "TypeScript" -> "typescript"
      [] name = "C++"        -> "c++"
      [] OTHER               -> name

SupportedLanguages ==
    {"typescript", "typescriptreact", "javascript", "javascriptreact", "python", "go", "java"}

\* lines 68-74: the language id of a file, "" standing for undefined
languageIdOf(file) ==
    LET ext == extname(file)
        l0 == IF ext \in DOMAIN languageMapping THEN toLowerCase(languageMapping[ext]) ELSE ""
        l1 == IF l0 = "c++" THEN "cpp" ELSE l0
        l2 == IF ext = "tsx" THEN "typescriptreact" ELSE l1
    IN IF ext = "jsx" THEN "javascriptreact" ELSE l2

\* (nodeIdCounter++).toString() for the k-th file (1-based)
nodeIdOf(k) == ToString(k - 1)

\* lines 93-104: the edges pushed for one resolved import of the file with id sourceId
edgesFor_noSelfCheck(sourceId, resolvedPaths, idMap) ==
    LET kept == SelectSeq(resolvedPaths, LAMBDA r : r \in DOMAIN idMap)
    IN [k \in 1..Len(kept) |->
          [id |-> <<"e", sourceId, idMap[kept[k]]>>, source |-> sourceId,
           target |-> idMap[kept[k]]]]

edgesFor_noHasCheck(sourceId, resolvedPaths, idMap) ==
    LET tgt(r) == IF r \in DOMAIN idMap THEN idMap[r] ELSE "undefined"
        kept == SelectSeq(resolvedPaths, LAMBDA r : sourceId # tgt(r))
    IN [k \in 1..Len(kept) |->
          [id |-> <<"e", sourceId, tgt(kept[k])>>, source |-> sourceId,
           target |-> tgt(kept[k])]]

edgesFor(sourceId, resolvedPaths, idMap) ==
    LET kept == SelectSeq(resolvedPaths,
                          LAMBDA r : r \in DOMAIN idMap /\ sourceId # idMap[r])
    IN [k \in 1..Len(kept) |->
          [id |-> <<"e", sourceId, idMap[kept[k]]>>, source |-> sourceId,
           target |-> idMap[kept[k]]]]

generate_start_supportedOnly ==
    /\ phase = "idle"
    /\ phase' = "running"
    /\ LET sup == SelectSeq(files, LAMBDA f : languageIdOf(f) \in SupportedLanguages)
       IN /\ nodes' = [k \in 1..Len(sup) |-> [id |-> nodeIdOf(k), fullPath |-> sup[k]]]
          /\ fileToNodeId' = [f \in Range(sup) |->
                                nodeIdOf(CHOOSE k \in 1..Len(sup) : sup[k] = f)]
    /\ edges' = <<>>
    /\ errors' = <<>>
    /\ task' = [f \in Range(files) |->
                  IF languageIdOf(f) \in SupportedLanguages
                  THEN [pc |-> "reading", i |-> 0]
                  ELSE [pc |-> "done", i |-> 0]]
    /\ UNCHANGED <<result, call, worldVars, uiVars, sideVars>>

\* lines 31-66: enumerate, create the nodes, start one callback per file; each
\* callback runs to its first await (readFile) or returns on an unsupported language
generate_start ==
    /\ phase = "idle"
    /\ phase' = "running"
    /\ nodes' = [k \in 1..Len(files) |-> [id |-> nodeIdOf(k), fullPath |-> files[k]]]
    /\ fileToNodeId' = [f \in Range(files) |->
                          nodeIdOf(CHOOSE k \in 1..Len(files) : files[k] = f)]
    /\ edges' = <<>>
    /\ errors' = <<>>
    /\ task' = [f \in Range(files) |->
                  IF languageIdOf(f) \in SupportedLanguages
                  THEN [pc |-> "reading", i |-> 0]
                  ELSE [pc |-> "done", i |-> 0]]
    /\ UNCHANGED <<result, call, worldVars, uiVars, sideVars>>

\* line 80 resolved: parseImports is called and awaited
readFile_ok(f) ==
    /\ phase = "running" /\ task[f].pc = "reading"
    /\ task' = [task EXCEPT ![f].pc = "parsing"]
    /\ UNCHANGED <<phase, nodes, edges, fileToNodeId, errors, result, call, worldVars, uiVars, sideVars>>

catchError_rethrow(f) ==
    /\ phase' = "thrown"
    /\ task' = [task EXCEPT ![f].pc = "failed"]
    /\ UNCHANGED <<nodes, edges, fileToNodeId, errors, result, call, worldVars, uiVars, sideVars>>

\* lines 106-108: the callback's catch records the failure and the callback resolves
catchError(f) ==
    /\ task' = [task EXCEPT ![f].pc = "failed"]
    /\ errors' = Append(errors, f)
    /\ UNCHANGED <<phase, nodes, edges, fileToNodeId, result, call, worldVars, uiVars, sideVars>>

\* line 80 rejected (unreadable file)
readFile_err(f) ==
    /\ phase = "running" /\ task[f].pc = "reading"
    /\ catchError(f)

\* lines 81-91: imports parsed; the first resolveImport is called and awaited
parseImports_done(f) ==
    /\ phase = "running" /\ task[f].pc = "parsing"
    /\ task' = [task EXCEPT ![f].pc = IF f \notin DOMAIN fileToNodeId \/ content[f] = <<>>
                                      THEN "done" ELSE "resolving"]
    /\ UNCHANGED <<phase, nodes, edges, fileToNodeId, errors, result, call, worldVars, uiVars, sideVars>>

\* lines 91-105: one resolveImport resolved; its edges are pushed and the next import
\* is taken up
resolveImport_ok(f) ==
    /\ phase = "running" /\ task[f].pc = "resolving"
    /\ LET importPath == content[f][task[f].i + 1]
           resolvedPaths == resolveImport(importPath, f, rootPath, files)
       IN edges' = edges \o edgesFor(fileToNodeId[f], resolvedPaths, fileToNodeId)
    /\ task' = [task EXCEPT ![f] = [pc |-> IF task[f].i + 1 < Len(content[f])
                                           THEN "resolving" ELSE "done",
                                    i  |-> task[f].i + 1]]
    /\ UNCHANGED <<phase, nodes, fileToNodeId, errors, result, call, worldVars, uiVars, sideVars>>

\* the paths checkFile tests for a candidate
fileProbes(candidate) ==
    {candidate} \cup {withExt(candidate, extensions[k]) : k \in 1..Len(extensions)}

\* lines 182-188: what one pass of the fuzzy loop adds for its candidate
fuzzyHits(candidateFuzzy, allFiles) ==
    IF existsSync(candidateFuzzy)
    THEN IF isDirectory(candidateFuzzy) THEN checkDir(candidateFuzzy, allFiles)
         ELSE IF isFile(candidateFuzzy) THEN <<candidateFuzzy>> ELSE <<>>
    ELSE <<>>

\* the candidates the fuzzy loop tests from index i on, up to the one at which it
\* breaks (line 189)
RECURSIVE fuzzyProbes(_, _, _, _)
fuzzyProbes(parts, i, root, allFiles) ==
    IF i > Len(parts) THEN {}
    ELSE LET suffix == SubSeq(parts, i, Len(parts))
             candidateFuzzy == pathJoin(root, suffix)
         IN IF suffix = <<Slash>> THEN fuzzyProbes(parts, i + 1, root, allFiles)
            ELSE {candidateFuzzy} \cup
                 (IF fuzzyHits(candidateFuzzy, allFiles) # <<>> THEN {}
                  ELSE fuzzyProbes(parts, i + 1, root, allFiles))

\* the paths on which one resolveImport call makes a type check: lstatSync is called
\* on every tested path that existsSync found (lines 133, 139, 146, 183-186)
statCalls(importPath, sourceFile, root, allFiles) ==
    LET ran == Range(resolveImportRan(importPath, sourceFile, root, allFiles).ran)
        tested ==
            (IF "relative" \in ran
             THEN fileProbes(pathResolve(dirname(sourceFile), importPath)) ELSE {})
            \cup (IF "root" \in ran THEN fileProbes(pathJoin(root, importPath)) ELSE {})
            \cup (IF "src" \in ran
                  THEN fileProbes(pathJoin(root, << <<"src">> >> \o importPath)) ELSE {})
            \cup (IF "fuzzy" \in ran THEN fuzzyProbes(importPath, 1, root, allFiles) ELSE {})
    IN {c \in tested : existsSync(c)}

\* line 91 rejected: lstatSync threw on a path that existsSync had just found (the
\* path was removed in between); resolveImport has no handler, so the rejection
\* reaches the catch of the file's callback
resolveImport_err(f) ==
    /\ phase = "running" /\ task[f].pc = "resolving"
    /\ statCalls(content[f][task[f].i + 1], f, rootPath, files) # {}
    /\ catchError(f)

\* lines 111-118: Promise.all over the callbacks, then the return
generate_return ==
    /\ phase = "running"
    /\ \A f \in Range(files) : task[f].pc \in {"done", "failed"}
    /\ phase' = "returned"
    /\ result' = [nodes |-> nodes, edges |-> edges, set |-> TRUE]
    /\ UNCHANGED <<nodes, edges, fileToNodeId, task, errors, call, worldVars, uiVars, sideVars>>

(***************************************************************************)
(* Renderer.smoothLookAt and the animation frames                           *)
(***************************************************************************)
MaxLooks == 2       \* smoothLookAt calls in a run of the camera

duration == 60
ScreenCenter == 400

\* the (x, scale) arguments smoothLookAt is called with; scales in thousandths
LookUniverse == { [x |-> 0, scale |-> 1000], [x |-> 100, scale |-> 1500] }

\* targetX of a call (line 407)
targetX(look) == ScreenCenter - (look.x * look.scale) \div 1000

\* start + (target - start) * ease, with ease = 1 - (1 - progress/duration)^3
eased(start, target, progress) ==
    start + ((target - start) * (duration^3 - (duration - progress)^3)) \div duration^3

\* what the tick closure of a loop writes to the camera once its progress is p
tickValue(loop, p) ==
    [x |-> eased(loop.startX, targetX(loop.look), p),
     scale |-> eased(loop.startScale, loop.look.scale, p)]

runCallbacks_firstWins(cam, q) ==
    IF q = <<>> THEN cam ELSE tickValue(Head(q), Head(q).progress + 1)

\* the camera after the callbacks of q have run one after the other
RECURSIVE runCallbacks(_, _)
runCallbacks(cam, q) ==
    IF q = <<>> THEN cam ELSE runCallbacks(tickValue(Head(q), Head(q).progress + 1), Tail(q))

reRegistered_oneMore(q) ==
    SelectSeq([i \in 1..Len(q) |-> [q[i] EXCEPT !.progress = @ + 1]],
              LAMBDA l : l.progress <= duration)

\* the callbacks registered for the next frame: each loop that ran and has not reached
\* its duration, in the order in which they ran
RECURSIVE reRegistered(_)
reRegistered(q) ==
    IF q = <<>> THEN <<>>
    ELSE LET l == [Head(q) EXCEPT !.progress = @ + 1]
         IN (IF l.progress < duration THEN <<l>> ELSE <<>>) \o reRegistered(Tail(q))

\* Renderer.smoothLookAt (lines 400-429): captures the start values and registers the
\* first tick
smoothLookAt(look) ==
    /\ looks < MaxLooks
    /\ rafQueue' = Append(rafQueue, [startX |-> camera.x, startScale |-> camera.scale,
                                     look |-> look, progress |-> 0, call |-> looks + 1])
    /\ lastLook' = look
    /\ looks' = looks + 1
    /\ UNCHANGED <<camera, nonCameraVars>>

\* one animation frame: the browser runs the registered callbacks in registration order
animationFrame ==
    /\ rafQueue # <<>>
    /\ camera' = runCallbacks(camera, rafQueue)
    /\ rafQueue' = reRegistered(rafQueue)
    /\ UNCHANGED <<lastLook, looks, nonCameraVars>>

CameraIdle ==
    /\ camera = [x |-> ScreenCenter, scale |-> 1000]
    /\ rafQueue = <<>>
    /\ lastLook = [x |-> 0, scale |-> 0]
    /\ looks = 0

(***************************************************************************)
(* InputManager's wheel zoom and the controller's zoom constraint.         *)
(* Scales are in thousandths, so zoomIntensity 0.001 makes delta = -deltaY. *)
(***************************************************************************)
maxScale == 5000
minScaleCap == 500

Min(a, b) == IF a < b THEN a ELSE b
Max(a, b) == IF a > b THEN a ELSE b

\* e.deltaY of the wheel events tried: small and large turns in both directions
WheelUniverse == {-6000, -700, -100, 100, 700, 6000}

\* fitScale values the node positions and the screen size can give; 0 is what an
\* empty screen gives, 2000 a graph much smaller than the screen
FitScaleUniverse == {0, 80, 300, 2000}

handleWheel_noFloor(deltaY) ==
    /\ scale' = Min(scale - deltaY, maxScale)
    /\ camera' = [camera EXCEPT !.scale = scale']
    /\ UNCHANGED <<minScale, rafQueue, lastLook, looks, coreVars, cacheVars>>

\* InputManager.handleWheel (lines 73-83) with the onZoom callback the controller
\* installs, Renderer.setTransform (390-392)
handleWheel(deltaY) ==
    /\ scale' = Max(minScale, Min(scale - deltaY, maxScale))
    /\ camera' = [camera EXCEPT !.scale = scale']
    /\ UNCHANGED <<minScale, rafQueue, lastLook, looks, coreVars, cacheVars>>

\* step 4 of GraphEngine.update (lines 105-127): the node positions, which are not
\* part of the state, enter as the fitScale they give
zoomConstraints(fitScale) ==
    /\ isRunning
    /\ layoutNodes # {}
    /\ minScale' = Min(fitScale, minScaleCap)
    /\ UNCHANGED <<scale, cameraVars, coreVars, cacheVars>>

ZoomIdle ==
    /\ scale = 1000
    /\ minScale = 100

(***************************************************************************)
(* GraphServer: the /api/graph requests, the dirtiness flag and the cache   *)
(* file.  A graph is named by the version of the workspace it was built     *)
(* from; writeFile truncates the file before the new text is in place, and  *)
(* a proper prefix of a JSON object never parses.                           *)
(***************************************************************************)
MaxChanges == 1     \* watcher events in a run of the server

Requests == {"r1", "r2", "r3"}

NoFile == [state |-> "none", v |-> 0]
IdleReq == [pc |-> "idle", hit |-> FALSE, readFailed |-> FALSE, ran |-> FALSE,
            data |-> 0, result |-> 0, since |-> 0]

\* the watcher's onDidChange / onDidCreate / onDidDelete (lines 23-25)
watcherEvent ==
    /\ srcVersion < MaxChanges
    /\ srcVersion' = srcVersion + 1
    /\ isDirty' = TRUE
    /\ UNCHANGED <<storage, cacheFile, req, cameraVars, zoomVars, coreVars>>

getGraphData_start_ignoreFlag(r) ==
    /\ req[r].pc = "idle"
    /\ LET clean == ~isDirty /\ cacheFile.state # "none"
       IN IF storage /\ cacheFile.state # "none"
          THEN req' = [req EXCEPT ![r] = [@ EXCEPT !.pc = "reading", !.hit = clean,
                                                   !.since = srcVersion]]
          ELSE req' = [req EXCEPT ![r] = [@ EXCEPT !.pc = "generating", !.hit = clean,
                                                   !.ran = TRUE, !.since = srcVersion]]
    /\ UNCHANGED <<storage, isDirty, cacheFile, srcVersion, cameraVars, zoomVars, coreVars>>

\* getGraphDataWithCache up to its first await (lines 34-42 or 34-52); hit records
\* whether the flag was clear and the cache file existed when the request was made,
\* since the number of watcher events delivered before it
getGraphData_start(r) ==
    /\ req[r].pc = "idle"
    /\ LET clean == ~isDirty /\ cacheFile.state # "none"
       IN IF storage /\ ~isDirty /\ cacheFile.state # "none"
          THEN req' = [req EXCEPT ![r] = [@ EXCEPT !.pc = "reading", !.hit = clean,
                                                   !.since = srcVersion]]
          ELSE req' = [req EXCEPT ![r] = [@ EXCEPT !.pc = "generating", !.hit = clean,
                                                   !.ran = TRUE, !.since = srcVersion]]
    /\ UNCHANGED <<storage, isDirty, cacheFile, srcVersion, cameraVars, zoomVars, coreVars>>

\* readFile and JSON.parse succeed (lines 42-44)
cacheRead_ok(r) ==
    /\ req[r].pc = "reading"
    /\ cacheFile.state = "full"
    /\ req' = [req EXCEPT ![r] = [@ EXCEPT !.pc = "done", !.result = cacheFile.v]]
    /\ UNCHANGED <<storage, isDirty, cacheFile, srcVersion, cameraVars, zoomVars, coreVars>>

\* JSON.parse throws on a file another request is writing; the catch (line 45) falls
\* through to the refresh (line 52)
cacheRead_err(r) ==
    /\ req[r].pc = "reading"
    /\ cacheFile.state = "partial"
    /\ req' = [req EXCEPT ![r] = [@ EXCEPT !.pc = "generating", !.readFailed = TRUE,
                                            !.ran = TRUE]]
    /\ UNCHANGED <<storage, isDirty, cacheFile, srcVersion, cameraVars, zoomVars, coreVars>>

\* dependencyService.generate resolves (line 52); without a cache path the graph is
\* returned at once (lines 55, 69)
refresh_done(r) ==
    /\ req[r].pc = "generating"
    /\ req' = [req EXCEPT ![r] = IF storage
                                 THEN [@ EXCEPT !.pc = "opening", !.data = srcVersion]
                                 ELSE [@ EXCEPT !.pc = "done", !.data = srcVersion,
                                                !.result = srcVersion]]
    /\ UNCHANGED <<storage, isDirty, cacheFile, srcVersion, cameraVars, zoomVars, coreVars>>

\* dependencyService.generate rejects: the request handler answers 500 (lines 92-95)
refresh_throws(r) ==
    /\ req[r].pc = "generating"
    /\ req' = [req EXCEPT ![r] = [@ EXCEPT !.pc = "failed"]]
    /\ UNCHANGED <<storage, isDirty, cacheFile, srcVersion, cameraVars, zoomVars, coreVars>>

\* writeFile opens the cache file, truncating it (line 61)
cacheWrite_start(r) ==
    /\ req[r].pc = "opening"
    /\ cacheFile' = [state |-> "partial", v |-> 0]
    /\ req' = [req EXCEPT ![r] = [@ EXCEPT !.pc = "writing"]]
    /\ UNCHANGED <<storage, isDirty, srcVersion, cameraVars, zoomVars, coreVars>>

\* writeFile resolves; the flag is cleared and the graph returned (lines 61-63, 69)
cacheWrite_ok(r) ==
    /\ req[r].pc = "writing"
    /\ cacheFile' = [state |-> "full", v |-> req[r].data]
    /\ isDirty' = FALSE
    /\ req' = [req EXCEPT ![r] = [@ EXCEPT !.pc = "done", !.result = req[r].data]]
    /\ UNCHANGED <<storage, srcVersion, cameraVars, zoomVars, coreVars>>

\* mkdir or writeFile rejects; the catch (line 64) leaves the flag alone and the graph
\* is returned (line 69)
cacheWrite_err(r) ==
    /\ req[r].pc \in {"opening", "writing"}
    /\ req' = [req EXCEPT ![r] = [@ EXCEPT !.pc = "done", !.result = req[r].data]]
    /\ UNCHANGED <<storage, isDirty, cacheFile, srcVersion, cameraVars, zoomVars, coreVars>>

CacheFresh ==
    /\ isDirty = TRUE
    /\ srcVersion = 0
    /\ req = [r \in Requests |-> IdleReq]

CacheIdle ==
    /\ storage = TRUE
    /\ cacheFile = NoFile
    /\ CacheFresh

(***************************************************************************)
(* HullGenerator.computeLandforms.  A node enters by its directory value;   *)
(* positions are left out, the centroids of different directories being     *)
(* taken as distinct points inside the Voronoi bounds.                      *)
(***************************************************************************)
MaxNodes == 4       \* nodes handed to one computeLandforms call

\* directory values: the workspace root, an ordinary folder, and a folder whose name
\* is also a property every object literal inherits
DirUniverse == {"root", "lib", "constructor"}

\* names for which clusterMap[dir] is truthy on the empty object literal of line 19
InheritedKeys == {"constructor", "toString", "valueOf", "hasOwnProperty"}

SeqsUpTo(S, n) == UNION {[1..k -> S] : k \in 0..n}

\* the own keys of clusterMap after the forEach of lines 20-26, in insertion order:
\* an entry is created only when the lookup of the directory gives nothing
RECURSIVE clusterMap(_)
clusterMap(dirs) ==
    IF dirs = <<>> THEN <<>>
    ELSE LET m == clusterMap(Front(dirs))
             dir == Last(dirs)
         IN IF dir \in Range(m) \/ dir \in InheritedKeys THEN m ELSE Append(m, dir)

computeLandforms_noGuard(dirs) ==
    [landmass |-> "global_landmass", plates |-> clusterMap(dirs),
     voronoi |-> TRUE, hull |-> TRUE]

\* computeLandforms (lines 15-69): the landmass (Null or its id), the ids of the
\* plates in order, and whether Delaunay/voronoi and polygonHull were invoked
computeLandforms(dirs) ==
    IF Len(dirs) < 3
    THEN [landmass |-> "null", plates |-> <<>>, voronoi |-> FALSE, hull |-> FALSE]
    ELSE [landmass |-> "global_landmass", plates |-> clusterMap(dirs),
          voronoi |-> TRUE, hull |-> TRUE]

nodesAfter_grouped(dirs) ==
    LET m == clusterMap(dirs)
    IN Concat([k \in 1..Len(m) |-> SelectSeq(dirs, LAMBDA d : d = m[k])])

\* the node list as the call leaves it: the two forEach loops (lines 20-26, 52-58)
\* read node.directory, node.x and node.y and assign only to the entries of clusterMap
\* and to allPoints; map, filter and polygonHull build new arrays
nodesAfter(dirs) == [i \in 1..Len(dirs) |-> dirs[i]]

NoLandCall == [nodes |-> <<>>, made |-> FALSE, result |-> computeLandforms(<<>>)]

\* one call of computeLandforms on the nodes drawn at the start
computeLandforms_call ==
    /\ ~landCall.made
    /\ landCall' = [made |-> TRUE, result |-> computeLandforms(landCall.nodes),
                    nodes |-> nodesAfter(landCall.nodes)]
    /\ UNCHANGED <<worldVars, buildVars, call, uiVars, cameraVars, zoomVars, cacheVars,
                   parseCall, disposed, listeners>>

(***************************************************************************)
(* RegexParser.parseImports for Go.  A text is a sequence of tokens: the    *)
(* word import, a run of blanks, a line break, the two parentheses, a       *)
(* quoted string, a line comment whose text holds a closing parenthesis,    *)
(* and other code.                                                          *)
(***************************************************************************)
MaxLines == 4       \* lines of one Go text

Quoted == {"\"fmt\"", "\"os\""}
unquote == [t \in Quoted |-> IF t = "\"fmt\"" THEN "fmt" ELSE "os"]

\* the lines a Go text is made of
L_open == <<"import", "sp", "(">>
L_fmt == <<"sp", "\"fmt\"">>
L_os == <<"sp", "\"os\"">>
L_fmtNote == <<"sp", "\"fmt\"", "sp", "//)">>
L_close == <<")">>
L_single == <<"import", "sp", "\"os\"">>
L_code == <<"code">>
LineUniverse == {L_open, L_fmt, L_os, L_fmtNote, L_close, L_single, L_code}

\* the text of the lines, joined by line breaks
RECURSIVE joinLines(_)
joinLines(lines) ==
    IF lines = <<>> THEN <<>>
    ELSE IF Len(lines) = 1 THEN lines[1]
    ELSE lines[1] \o <<"nl">> \o joinLines(Tail(lines))

\* \s and the character ')'
isWs(t) == t \in {"sp", "nl"}
hasParen(t) == t \in {")", "//)"}

RECURSIVE skipWs(_, _)
skipWs(toks, p) == IF p <= Len(toks) /\ isWs(toks[p]) THEN skipWs(toks, p + 1) ELSE p

\* import\s+ matched at p: the position of what follows it, 0 when there is no match
afterImport(toks, p) ==
    IF toks[p] = "import" /\ p + 1 <= Len(toks) /\ isWs(toks[p + 1])
    THEN skipWs(toks, p + 1) ELSE 0

\* lines 29-33: the exec loop of /import\s+"(.*?)"/g from position from
RECURSIVE singleLine(_, _)
singleLine(toks, from) ==
    IF from > Len(toks) THEN <<>>
    ELSE LET j == afterImport(toks, from)
         IN IF j # 0 /\ j <= Len(toks) /\ toks[j] \in Quoted
            THEN <<unquote[toks[j]]>> \o singleLine(toks, j + 1)
            ELSE singleLine(toks, from + 1)

\* the first position at or after from that holds a ')', 0 when there is none
RECURSIVE firstParen(_, _)
firstParen(toks, from) ==
    IF from > Len(toks) THEN 0
    ELSE IF hasParen(toks[from]) THEN from
    ELSE firstParen(toks, from + 1)

\* blockContent.split('\n')
RECURSIVE split(_)
split(toks) ==
    IF \A k \in 1..Len(toks) : toks[k] # "nl" THEN <<toks>>
    ELSE LET k == CHOOSE i \in 1..Len(toks) :
                      toks[i] = "nl" /\ \A h \in 1..(i - 1) : toks[h] # "nl"
         IN <<SubSeq(toks, 1, k - 1)>> \o split(SubSeq(toks, k + 1, Len(toks)))

\* lines 43-46: /"(.*?)"/.exec(line), the first quoted string of the line if any
quoteMatch(line) ==
    LET qs == SelectSeq(line, LAMBDA t : t \in Quoted)
    IN IF qs = <<>> THEN <<>> ELSE <<unquote[qs[1]]>>

\* lines 38-47: what one block adds
RECURSIVE blockImports(_)
blockImports(lines) ==
    IF lines = <<>> THEN <<>> ELSE quoteMatch(lines[1]) \o blockImports(Tail(lines))

\* lines 36-48: the exec loop of /import\s+\(([\s\S]*?)\)/g from position from
RECURSIVE blocks(_, _)
blocks(toks, from) ==
    IF from > Len(toks) THEN <<>>
    ELSE LET j == afterImport(toks, from)
             e == IF j # 0 /\ j <= Len(toks) /\ toks[j] = "("
                  THEN firstParen(toks, j + 1) ELSE 0
         IN IF e # 0
            THEN blockImports(split(SubSeq(toks, j + 1, e - 1))) \o blocks(toks, e + 1)
            ELSE blocks(toks, from + 1)

\* the Set of line 7 as Array.from gives it back: first occurrences, in order
RECURSIVE setOf(_)
setOf(seq) ==
    IF seq = <<>> THEN <<>>
    ELSE LET m == setOf(Front(seq))
         IN IF Last(seq) \in Range(m) THEN m ELSE Append(m, Last(seq))

\* parseImports(content, 'go') (lines 27-48, 74)
parseImportsGo(toks) == setOf(singleLine(toks, 1) \o blocks(toks, 1))

NoParseCall == [lines |-> <<>>, made |-> FALSE, result |-> <<>>]

\* one call of parseImports on the Go text drawn at the start
parseImports_call ==
    /\ ~parseCall.made
    /\ parseCall' = [parseCall EXCEPT !.made = TRUE,
                                      !.result = parseImportsGo(joinLines(parseCall.lines))]
    /\ UNCHANGED <<worldVars, buildVars, call, uiVars, cameraVars, zoomVars, cacheVars,
                   landCall, disposed, listeners>>


(***************************************************************************)
(* The listeners of InputManager.  Function.prototype.bind returns a new    *)
(* function at every call: a bound function is named by its method and by   *)
(* the call of bind that made it, the first in setupListeners, the second   *)
(* in dispose.                                                              *)
(***************************************************************************)
InputEvents == {"wheel", "pointerdown", "pointermove", "pointerup"}

handlerOf == [ev \in InputEvents |->
                CASE ev = "wheel" -> "handleWheel"
                  [] ev = "pointerdown" -> "handleDown"
                  [] ev = "pointermove" -> "handleMove"
                  [] ev = "pointerup" -> "handleUp"]

\* this.handleX.bind(this), evaluated for the k-th time
bind(ev, k) == <<ev, handlerOf[ev], k>>

\* InputManager.setupListeners (lines 39-44), called by the constructor
setupListeners == {bind(ev, 1) : ev \in InputEvents}

\* removeEventListener: removes the listener that is this very function, if attached
removeEventListener(attached, fn) == attached \ {fn}

InputManager_dispose_sameFunctions(attached) == attached \ setupListeners

\* InputManager.dispose (lines 86-91): four removeEventListener calls, each with the
\* result of a new bind
InputManager_dispose(attached) ==
    removeEventListener(
        removeEventListener(
            removeEventListener(
                removeEventListener(attached, bind("wheel", 2)),
                bind("pointerdown", 2)),
            bind("pointermove", 2)),
        bind("pointerup", 2))

\* whether an event of this type still reaches a method of the input manager
inputAttached(ev) == \E l \in listeners : l[1] = ev

HarnessIdle ==
    /\ landCall = NoLandCall
    /\ parseCall = NoParseCall
    /\ disposed = FALSE
    /\ listeners = setupListeners

SideIdle == CameraIdle /\ ZoomIdle /\ CacheIdle /\ HarnessIdle

(***************************************************************************)
(* The webview: Layout, Renderer, InputManager, GraphEngine                 *)
(***************************************************************************)
ClickWindow == 300
TimeStep == ClickWindow \div 2
\* Date.now() lies far beyond one click window
StartTime == 10 * ClickWindow

Null == "null"

\* the node/edge lists the host can send: the a/b/c graph of the build and a
\* two-node graph
NodeUniverse == {"0", "1", "2"}
directoryOf == [n \in NodeUniverse |-> IF n = "2" THEN "lib" ELSE "root"]
Graphs == { [nodes |-> {"0", "1", "2"}, links |-> {<<"0", "1">>}],
            [nodes |-> {"0", "1"}, links |-> {<<"1", "0">>}] }

PlateUniverse == {directoryOf[n] : n \in NodeUniverse}

EmptyFn == [x \in {} |-> 0]

\* HullGenerator.computeLandforms + Renderer.render: the plate shapes a render of the
\* node set ns leaves on the hull layer, each with a fresh lastClickTime
platesOf(ns) ==
    IF Cardinality(ns) < 3 THEN EmptyFn
    ELSE [d \in {directoryOf[n] : n \in ns} |-> 0]

\* GraphEngine.update: nothing unless running; else the regions are recomputed and
\* render() rebuilds the hull layer and creates the missing node sprites
renderHull == plateGfx' = IF isRunning THEN platesOf(layoutNodes) ELSE plateGfx

renderSprites ==
    /\ nodesMap' = IF isRunning THEN nodesMap \cup layoutNodes ELSE nodesMap
    /\ rendered' = (rendered \/ isRunning)

update_always ==
    /\ plateGfx' = platesOf(layoutNodes)
    /\ nodesMap' = nodesMap \cup layoutNodes
    /\ rendered' = TRUE

update == renderHull /\ renderSprites

neighborsOf_targetsOnly(id) == {l[2] : l \in {m \in layoutLinks : m[1] = id}}

\* the neighbor computation of handleNodeClick
neighborsOf(id) ==
    {l[2] : l \in {m \in layoutLinks : m[1] = id}} \cup
    {l[1] : l \in {m \in layoutLinks : m[2] = id}}

\* Renderer.updateSelection
updateSelection(nodeId, neighbors, clusterId) ==
    /\ selectedNodeId' = nodeId
    /\ highlightNeighbors' = neighbors
    /\ selectedClusterId' = clusterId

\* the style rules of Renderer.render (lines 279-310): alpha and scale in hundredths,
\* colours by their palette name
SelectedStyle == [alpha |-> 100, scale |-> 160, fill |-> "RED", stroke |-> "RED"]
NeighborStyle == [alpha |-> 100, scale |-> 130, fill |-> "BLUE", stroke |-> "BLUE"]
DimmedStyle == [alpha |-> 35, scale |-> 80, fill |-> "WHITE", stroke |-> "STROKE"]
MemberStyle == [alpha |-> 100, scale |-> 120, fill |-> "WHITE", stroke |-> "DARK"]
OutsideStyle == [alpha |-> 25, scale |-> 100, fill |-> "WHITE", stroke |-> "STROKE"]
PlainStyle == [alpha |-> 100, scale |-> 100, fill |-> "WHITE", stroke |-> "STROKE"]

\* the style a render gives the sprite of node n under the renderer's selection state
styleOf(n) ==
    IF selectedNodeId # Null
    THEN IF n = selectedNodeId THEN SelectedStyle
         ELSE IF n \in highlightNeighbors THEN NeighborStyle
         ELSE DimmedStyle
    ELSE IF selectedClusterId # Null
    THEN IF directoryOf[n] = selectedClusterId THEN MemberStyle ELSE OutsideStyle
    ELSE PlainStyle

\* Renderer.smoothLookAt(x, y, scale) as called by the controller: the world point is
\* named by what it is the position of, the scale is in tenths
FocusScale == 15
OverviewScale == 10
NoLook == [target |-> <<"none">>, scale |-> 0]
lookAt(target, s) == [target |-> target, scale |-> s]

\* the kind of selection in force
selectionKind ==
    IF selectedNodeId # Null THEN "node"
    ELSE IF selectedClusterId # Null THEN "cluster" ELSE "none"

\* observation of a callback the renderer makes: its arguments, whether the controller
\* acted on it, the selection that was in force when it was made, the time, and the
\* smoothLookAt call the controller made in it
report(kind, id, clickCount, acted, look) ==
    lastReport' = [kind |-> kind, id |-> id, count |-> clickCount, acted |-> acted,
                   over |-> selectionKind, at |-> now, look |-> look]

\* time passes
tick ==
    /\ now < StartTime + MaxTicks * TimeStep
    /\ now' = now + TimeStep
    /\ UNCHANGED <<isRunning, layoutNodes, layoutLinks, alphaTarget, pinned,
                   engineSelectedNodeId, isPanEnabled, panDragging, selectedNodeId,
                   selectedClusterId, highlightNeighbors, nodesMap, rendered, sprite, lastClick,
                   plateGfx, stageDown, lastStageClickTime, pointer, lastReport, nonUiVars>>

\* GraphEngine.init -> Layout.setData: the working set is replaced by new node objects
\* and the simulation restarts
init(g) ==
    /\ layoutNodes' = g.nodes
    /\ layoutLinks' = g.links
    /\ pinned' = {}
    /\ isRunning' = TRUE
    /\ UNCHANGED <<now, alphaTarget, engineSelectedNodeId, isPanEnabled, panDragging,
                   selectedNodeId, selectedClusterId, highlightNeighbors, nodesMap, rendered, sprite,
                   lastClick, plateGfx, stageDown, lastStageClickTime, pointer, lastReport,
                   nonUiVars>>

\* one simulation tick: Layout's tick listener calls GraphEngine.update
layoutTick ==
    /\ layoutNodes # {}
    /\ update
    /\ UNCHANGED <<now, isRunning, layoutNodes, layoutLinks, alphaTarget, pinned,
                   engineSelectedNodeId, isPanEnabled, panDragging, selectedNodeId,
                   selectedClusterId, highlightNeighbors, sprite, lastClick, stageDown,
                   lastStageClickTime, pointer, lastReport, nonUiVars>>

\* GraphEngine.toggleTheme
toggleTheme ==
    /\ update
    /\ UNCHANGED <<now, isRunning, layoutNodes, layoutLinks, alphaTarget, pinned,
                   engineSelectedNodeId, isPanEnabled, panDragging, selectedNodeId,
                   selectedClusterId, highlightNeighbors, sprite, lastClick, stageDown,
                   lastStageClickTime, pointer, lastReport, nonUiVars>>

\* GraphEngine.dispose (lines 246-250), called once, when the component unmounts
dispose ==
    /\ ~disposed
    /\ isRunning' = FALSE
    /\ listeners' = InputManager_dispose(listeners)
    /\ disposed' = TRUE
    /\ rendered' = FALSE
    /\ UNCHANGED <<now, layoutNodes, layoutLinks, alphaTarget, pinned, engineSelectedNodeId,
                   isPanEnabled, panDragging, selectedNodeId, selectedClusterId,
                   highlightNeighbors, nodesMap, sprite, lastClick, plateGfx, stageDown,
                   lastStageClickTime, pointer, lastReport, worldVars, buildVars, call,
                   cameraVars, zoomVars, cacheVars, landCall, parseCall>>

\* GraphEngine.resetCamera
resetCamera ==
    /\ engineSelectedNodeId' = Null
    /\ updateSelection(Null, {}, Null)
    /\ update
    /\ report("reset", Null, 0, TRUE, lookAt(<<"origin">>, OverviewScale))
    /\ UNCHANGED <<now, isRunning, layoutNodes, layoutLinks, alphaTarget, pinned,
                   isPanEnabled, panDragging, sprite, lastClick, stageDown,
                   lastStageClickTime, pointer, nonUiVars>>


handleDragStart_keepPan(id) ==
    /\ isPanEnabled' = FALSE
    /\ panDragging' = panDragging
    /\ alphaTarget' = 3
    /\ update

\* GraphEngine.handleDragStart
handleDragStart(id) ==
    /\ isPanEnabled' = FALSE
    /\ panDragging' = FALSE
    /\ alphaTarget' = 3
    /\ update

\* GraphEngine.handleDragMove
handleDragMove(id) ==
    IF id \in layoutNodes
    THEN pinned' = pinned \cup {id} /\ update
    ELSE UNCHANGED <<pinned, plateGfx, nodesMap, rendered>>

\* GraphEngine.handleDragEnd
handleDragEnd(id) ==
    /\ isPanEnabled' = TRUE
    /\ IF id \in layoutNodes
       THEN alphaTarget' = 0 /\ pinned' = pinned \ {id} /\ update
       ELSE UNCHANGED <<alphaTarget, pinned, plateGfx, nodesMap, rendered>>

nodeClickActs_anyClick(id, clickCount) == id \in layoutNodes

\* whether a node click of this count acts (lines 132-134)
nodeClickActs(id, clickCount) == clickCount = 2 /\ id \in layoutNodes

\* the camera focus of handleNodeClick (line 152)
nodeClickLook(id, clickCount) ==
    IF nodeClickActs(id, clickCount) THEN lookAt(<<"node", id>>, FocusScale) ELSE NoLook

\* the camera focus of handleHullClick: the mean position of the cluster's nodes, when
\* the layout holds any (lines 177-183)
hullClickLook(id, clickCount) ==
    IF clickCount = 2 /\ (\E n \in layoutNodes : directoryOf[n] = id)
    THEN lookAt(<<"cluster", id>>, FocusScale) ELSE NoLook

backgroundClickLook_always(clickCount) == lookAt(<<"origin">>, OverviewScale)

\* the camera reset of handleBackgroundClick (lines 206-209)
backgroundClickLook(clickCount) ==
    IF clickCount = 2 THEN lookAt(<<"origin">>, OverviewScale) ELSE NoLook

handleNodeClick_keepCluster(id, clickCount) ==
    IF nodeClickActs(id, clickCount)
    THEN /\ engineSelectedNodeId' = id
         /\ updateSelection(id, neighborsOf(id), selectedClusterId)
         /\ update
    ELSE UNCHANGED <<engineSelectedNodeId, selectedNodeId, highlightNeighbors,
                     selectedClusterId>>

\* GraphEngine.handleNodeClick
handleNodeClick(id, clickCount) ==
    IF nodeClickActs(id, clickCount)
    THEN /\ engineSelectedNodeId' = id
         /\ updateSelection(id, neighborsOf(id), Null)
         /\ update
    ELSE UNCHANGED <<engineSelectedNodeId, selectedNodeId, highlightNeighbors,
                     selectedClusterId>>

\* GraphEngine.handleHullClick; the hull layer its update() rebuilds is joined with the
\* pressed shape's own stamp in platePointerDown
handleHullClick(id, clickCount) ==
    IF clickCount = 2
    THEN /\ engineSelectedNodeId' = Null
         /\ updateSelection(Null, {}, id)
         /\ renderSprites
    ELSE UNCHANGED <<engineSelectedNodeId, selectedNodeId, highlightNeighbors,
                     selectedClusterId, nodesMap, rendered>>

\* GraphEngine.handleBackgroundClick
handleBackgroundClick(clickCount) ==
    /\ engineSelectedNodeId' = Null
    /\ updateSelection(Null, {}, Null)
    /\ update

nodeClickCount_sharedStamp(id) ==
    IF \E n \in NodeUniverse : lastClick[n] # 0 /\ now - lastClick[n] < ClickWindow
    THEN 2 ELSE 1

\* the click count onUp reports for the sprite of node id (lines 349-355)
nodeClickCount(id) ==
    IF lastClick[id] # 0 /\ now - lastClick[id] < ClickWindow THEN 2 ELSE 1

\* the click count a plate shape reports on pointerdown (lines 199-204)
plateClickCount(pid) == IF now - plateGfx[pid] < ClickWindow THEN 2 ELSE 1

\* the click count the stage reports (lines 109-114)
stageClickCount == IF now - lastStageClickTime < ClickWindow THEN 2 ELSE 1

\* InputManager.handleMove, the window's pointermove listener: during a pan gesture it
\* delivers onPan, observed with what the pressed pointer went down on
handleMove ==
    IF panDragging
    THEN report("pan", pointer[1], 0, TRUE, NoLook)
    ELSE UNCHANGED lastReport

\* the pointerdown handler of the sprite of node id (lines 327-335): it attaches
\* onMove and onUp and calls GraphEngine.handleDragStart
onPointerDown(id) ==
    /\ sprite' = [sprite EXCEPT ![id] = [listening |-> TRUE, isDragging |-> FALSE]]
    /\ handleDragStart(id)

\* onMove (lines 337-341)
onMove(id) ==
    /\ sprite' = [sprite EXCEPT ![id].isDragging = TRUE]
    /\ handleDragMove(id)

onUp_stampSingles(id) ==
    /\ sprite' = [sprite EXCEPT ![id] = [listening |-> FALSE, isDragging |-> FALSE]]
    /\ handleDragEnd(id)
    /\ IF ~sprite[id].isDragging
       THEN /\ handleNodeClick(id, nodeClickCount(id))
            /\ lastClick' = [lastClick EXCEPT
                                ![id] = IF nodeClickCount(id) = 2 THEN 0 ELSE now]
            /\ report("node", id, nodeClickCount(id), id \in layoutNodes,
                      nodeClickLook(id, nodeClickCount(id)))
       ELSE UNCHANGED <<engineSelectedNodeId, selectedNodeId, highlightNeighbors,
                        selectedClusterId, lastClick, lastReport>>

\* onUp (lines 343-358): detaches the handlers, calls GraphEngine.handleDragEnd and,
\* when the pointer never moved, reports a click to GraphEngine.handleNodeClick. The
\* next pointerdown overwrites isDragging before anything reads it, so the record of
\* a sprite that stopped listening carries no value of it
onUp(id) ==
    /\ sprite' = [sprite EXCEPT ![id] = [listening |-> FALSE, isDragging |-> FALSE]]
    /\ handleDragEnd(id)
    /\ IF ~sprite[id].isDragging
       THEN /\ handleNodeClick(id, nodeClickCount(id))
            /\ lastClick' = [lastClick EXCEPT ![id] = now]
            /\ report("node", id, nodeClickCount(id), id \in layoutNodes,
                      nodeClickLook(id, nodeClickCount(id)))
       ELSE UNCHANGED <<engineSelectedNodeId, selectedNodeId, highlightNeighbors,
                        selectedClusterId, lastClick, lastReport>>

\* pointerdown of the mouse on the sprite of node id; InputManager.handleDown then
\* finds pan disabled
nodePointerDown(id) ==
    /\ pointer = <<"none">> /\ id \in nodesMap
    /\ onPointerDown(id)
    /\ pointer' = <<"node", id>>
    /\ UNCHANGED <<now, isRunning, layoutNodes, layoutLinks, pinned, engineSelectedNodeId,
                   selectedNodeId, selectedClusterId, highlightNeighbors, lastClick,
                   stageDown, lastStageClickTime, lastReport, nonUiVars>>

\* globalpointermove while the sprite listens: onMove -> GraphEngine.handleDragMove
nodePointerMove(id) ==
    /\ pointer = <<"node", id>> /\ sprite[id].listening
    /\ onMove(id)
    /\ handleMove
    /\ UNCHANGED <<now, isRunning, layoutNodes, layoutLinks, alphaTarget,
                   engineSelectedNodeId, isPanEnabled, panDragging, selectedNodeId,
                   selectedClusterId, highlightNeighbors, lastClick, stageDown,
                   lastStageClickTime, pointer, nonUiVars>>

\* pointerup / pointerupoutside of the mouse on the listening sprite;
\* InputManager.handleUp ends any pan
nodePointerUp(id) ==
    /\ pointer = <<"node", id>> /\ sprite[id].listening
    /\ onUp(id)
    /\ panDragging' = FALSE
    /\ pointer' = <<"none">>
    /\ UNCHANGED <<now, isRunning, layoutNodes, layoutLinks, stageDown, lastStageClickTime,
                   nonUiVars>>

\* pointerdown on the plate shape pid: the handler render() attached to it calls
\* GraphEngine.handleHullClick and then stamps its own lastClickTime, a variable of the
\* shape that a render inside the callback has already replaced; the press also
\* reaches InputManager.handleDown
platePointerDown(pid) ==
    /\ pointer = <<"none">> /\ pid \in DOMAIN plateGfx
    /\ handleHullClick(pid, plateClickCount(pid))
    /\ IF plateClickCount(pid) = 2 /\ isRunning
       THEN renderHull
       ELSE plateGfx' = [plateGfx EXCEPT ![pid] = now]
    /\ report("hull", pid, plateClickCount(pid), TRUE,
              hullClickLook(pid, plateClickCount(pid)))
    /\ panDragging' = isPanEnabled
    /\ pointer' = <<"plate">>
    /\ UNCHANGED <<now, isRunning, layoutNodes, layoutLinks, alphaTarget, pinned,
                   isPanEnabled, sprite, lastClick, stageDown, lastStageClickTime,
                   nonUiVars>>

\* release of a press that went down on a plate: no shape handler listens; the stage
\* handler clears stageDownPos and InputManager.handleUp ends the pan
platePointerUp ==
    /\ pointer = <<"plate">>
    /\ stageDown' = FALSE
    /\ panDragging' = FALSE
    /\ pointer' = <<"none">>
    /\ UNCHANGED <<now, isRunning, layoutNodes, layoutLinks, alphaTarget, pinned,
                   engineSelectedNodeId, isPanEnabled, selectedNodeId, selectedClusterId,
                   highlightNeighbors, nodesMap, rendered, sprite, lastClick, plateGfx,
                   lastStageClickTime, lastReport, nonUiVars>>

\* movement of the pointer pressed on a plate or on the stage: no shape handler
\* listens, InputManager.handleMove does
pointerMove ==
    /\ pointer[1] \in {"plate", "stage"}
    /\ handleMove
    /\ UNCHANGED <<now, isRunning, layoutNodes, layoutLinks, alphaTarget, pinned,
                   engineSelectedNodeId, isPanEnabled, panDragging, selectedNodeId,
                   selectedClusterId, highlightNeighbors, nodesMap, rendered, sprite, lastClick,
                   plateGfx, stageDown, lastStageClickTime, pointer, nonUiVars>>

\* pointerdown on the stage itself (no shape under the pointer)
stagePointerDown ==
    /\ pointer = <<"none">>
    /\ stageDown' = TRUE
    /\ panDragging' = isPanEnabled
    /\ pointer' = <<"stage">>
    /\ UNCHANGED <<now, isRunning, layoutNodes, layoutLinks, alphaTarget, pinned,
                   engineSelectedNodeId, isPanEnabled, selectedNodeId, selectedClusterId,
                   highlightNeighbors, nodesMap, rendered, sprite, lastClick, plateGfx,
                   lastStageClickTime, lastReport, nonUiVars>>

\* pointerup of a press that went down on the stage; isClick: released on the stage
\* less than 5px from the press
stagePointerUp(isClick) ==
    /\ pointer = <<"stage">>
    /\ IF stageDown /\ isClick
       THEN /\ handleBackgroundClick(stageClickCount)
            /\ lastStageClickTime' = now
            /\ report("bg", Null, stageClickCount, TRUE,
                      backgroundClickLook(stageClickCount))
       ELSE UNCHANGED <<engineSelectedNodeId, selectedNodeId, highlightNeighbors,
                        selectedClusterId, plateGfx, nodesMap, rendered, lastStageClickTime,
                        lastReport>>
    /\ stageDown' = FALSE
    /\ panDragging' = FALSE
    /\ pointer' = <<"none">>
    /\ UNCHANGED <<now, isRunning, layoutNodes, layoutLinks, alphaTarget, pinned,
                   isPanEnabled, sprite, lastClick, nonUiVars>>

\* pointerdown of one more pointer (a finger, a pen) on the sprite of node id, whatever
\* other pointers are down: nothing in the handler looks at a drag in progress
touchDown(id) ==
    /\ id \in nodesMap
    /\ onPointerDown(id)
    /\ UNCHANGED <<now, isRunning, layoutNodes, layoutLinks, pinned, engineSelectedNodeId,
                   selectedNodeId, selectedClusterId, highlightNeighbors, lastClick,
                   stageDown, lastStageClickTime, pointer, lastReport, nonUiVars>>

\* movement of a pointer while the sprite of node id listens
touchMove(id) ==
    /\ sprite[id].listening
    /\ onMove(id)
    /\ handleMove
    /\ UNCHANGED <<now, isRunning, layoutNodes, layoutLinks, alphaTarget,
                   engineSelectedNodeId, isPanEnabled, panDragging, selectedNodeId,
                   selectedClusterId, highlightNeighbors, lastClick, stageDown,
                   lastStageClickTime, pointer, nonUiVars>>

\* release of a pointer that the listening sprite of node id receives
touchUp(id) ==
    /\ sprite[id].listening
    /\ onUp(id)
    /\ panDragging' = FALSE
    /\ UNCHANGED <<now, isRunning, layoutNodes, layoutLinks, stageDown, lastStageClickTime,
                   pointer, nonUiVars>>

UiIdle ==
    /\ now = StartTime
    /\ isRunning = FALSE
    /\ layoutNodes = {} /\ layoutLinks = {}
    /\ alphaTarget = 0 /\ pinned = {}
    /\ engineSelectedNodeId = Null
    /\ isPanEnabled = TRUE /\ panDragging = FALSE
    /\ selectedNodeId = Null /\ selectedClusterId = Null /\ highlightNeighbors = {}
    /\ nodesMap = {} /\ rendered = FALSE
    /\ sprite = [n \in NodeUniverse |-> [listening |-> FALSE, isDragging |-> FALSE]]
    /\ lastClick = [n \in NodeUniverse |-> 0]
    /\ plateGfx = EmptyFn
    /\ stageDown = FALSE /\ lastStageClickTime = 0
    /\ pointer = <<"none">>
    /\ lastReport = [kind |-> "none", id |-> Null, count |-> 0, acted |-> FALSE,
                     over |-> "none", at |-> 0, look |-> NoLook]

(***************************************************************************)
(* Worlds                                                                   *)
(***************************************************************************)
RECURSIVE SubsetsUpTo(_, _)
SubsetsUpTo(S, k) ==
    IF k = 0 THEN {{}}
    ELSE LET r == SubsetsUpTo(S, k - 1) IN r \cup {x \cup {p} : x \in r, p \in S}

\* the configurations: onboarder.config.json read, or the empty default of getConfig
LanguageMappings == { [e \in {"ts"} |-> "TypeScript"], [e \in {} |-> ""] }

\* files of universe u on disk (present) and enumerated (known): F_a is always known,
\* a file on disk may be hidden from the enumeration by the ignore rules
WorldInit(u) ==
    /\ \E present \in SUBSET (Range(u) \ {F_a}) :
       \E ignored \in SUBSET present :
          /\ disk = present \cup {F_a}
          /\ files = SelectSeq(u, LAMBDA f : f = F_a \/ (f \in present /\ f \notin ignored))
    /\ languageMapping \in LanguageMappings

BuildIdle ==
    /\ phase = "idle" /\ nodes = <<>> /\ edges = <<>> /\ fileToNodeId = <<>>
    /\ task = <<>> /\ errors = <<>> /\ result = NoResult

NoCall == [importPath |-> <<>>, sourceFile |-> <<>>, hits |-> <<>>, ran |-> <<>>, made |-> FALSE]

\* ---- the graph build over the three-file workspaces
InitBuild ==
    /\ WorldInit(BuildUniverse)
    /\ \E P \in SubsetsUpTo({F_a, F_c} \X Range(ImportUniverse), MaxImports) :
          content = [f \in Range(files) |->
                       SelectSeq(ImportUniverse, LAMBDA s : <<f, s>> \in P)]
    /\ BuildIdle
    /\ call = NoCall
    /\ UiIdle
    /\ SideIdle

NextBuild ==
    \/ generate_start
    \/ \E f \in Range(files) : readFile_ok(f)
    \/ \E f \in Range(files) : readFile_err(f)
    \/ \E f \in Range(files) : parseImports_done(f)
    \/ \E f \in Range(files) : resolveImport_ok(f)
    \/ \E f \in Range(files) : resolveImport_err(f)
    \/ generate_return

SpecBuild == InitBuild /\ [][NextBuild]_vars

\* ---- single resolveImport calls over the five-file workspaces
Resolve(importPath, sourceFile) ==
    /\ LET r == resolveImportRan(importPath, sourceFile, rootPath, files)
       IN call' = [importPath |-> importPath, sourceFile |-> sourceFile,
                   hits |-> r.hits, ran |-> r.ran, made |-> TRUE]
    /\ UNCHANGED <<buildVars, worldVars, uiVars, sideVars>>

InitResolve ==
    /\ WorldInit(Universe)
    /\ content = [f \in Range(files) |-> <<>>]
    /\ BuildIdle
    /\ call = NoCall
    /\ UiIdle
    /\ SideIdle

NextResolve ==
    \E importPath \in Range(ImportUniverse), sourceFile \in Range(files) :
        Resolve(importPath, sourceFile)

SpecResolve == InitResolve /\ [][NextResolve]_vars

\* ---- the webview under clicks, drags, ticks and rebuilds
InitUI ==
    /\ disk = {F_a} /\ files = <<F_a>> /\ languageMapping = [e \in {} |-> ""]
    /\ content = [f \in {F_a} |-> <<>>]
    /\ BuildIdle
    /\ call = NoCall
    /\ UiIdle
    /\ SideIdle

NextUI ==
    \/ tick
    \/ \E g \in Graphs : init(g)
    \/ layoutTick
    \/ toggleTheme
    \/ resetCamera
    \/ \E id \in NodeUniverse : nodePointerDown(id)
    \/ \E id \in NodeUniverse : nodePointerMove(id)
    \/ \E id \in NodeUniverse : nodePointerUp(id)
    \/ \E pid \in PlateUniverse : platePointerDown(pid)
    \/ platePointerUp
    \/ pointerMove
    \/ stagePointerDown
    \/ \E isClick \in BOOLEAN : stagePointerUp(isClick)

SpecUI == InitUI /\ [][NextUI]_vars

(***************************************************************************)
(* Properties of the graph build                                            *)
(***************************************************************************)
NodeIds(ns) == {ns[k].id : k \in 1..Len(ns)}

\* the known-or-unknown paths the k-th import of f resolves to
Resolved(f, k) == Range(resolveImport(content[f][k], f, rootPath, files))

\* number of edges s -> t in an edge list
EdgeCount(es, s, t) == Cardinality({k \in 1..Len(es) : es[k].source = s /\ es[k].target = t})

\* number of the first upTo imports of f that resolve to t
ImportCount(f, t, upTo) == Cardinality({k \in 1..upTo : t \in Resolved(f, k)})

Returned == phase = "returned" /\ result.set

\* C1: every edge of the returned graph has a source id and a target id that are ids
\* of nodes of the returned node list (no dangling reference).
C1_NoDanglingEdge ==
    Returned =>
        \A k \in 1..Len(result.edges) :
            /\ result.edges[k].source \in NodeIds(result.nodes)
            /\ result.edges[k].target \in NodeIds(result.nodes)

\* a returned graph with an edge, built where some import resolved to a path that is
\* on disk but is no known file
C1_Witness ==
    /\ Returned /\ result.edges # <<>>
    /\ \E f \in Range(files) :
          /\ task[f].pc = "done" /\ task[f].i > 0
          /\ \E k \in 1..task[f].i : ~(Resolved(f, k) \subseteq Range(files))

\* C2: no edge of the returned graph has source = target, also when an import
\* resolves to the importing file itself.
C2_NoSelfLoop ==
    Returned =>
        \A k \in 1..Len(result.edges) : result.edges[k].source # result.edges[k].target

\* a returned graph where a processed import's directory expansion held the importing
\* file next to another known file
C2_Witness ==
    /\ Returned /\ result.edges # <<>>
    /\ \E f \in Range(files) :
          /\ task[f].pc = "done" /\ task[f].i > 0
          /\ \E k \in 1..task[f].i : f \in Resolved(f, k) /\ Cardinality(Resolved(f, k)) > 1

\* C3: a failure while processing one file never aborts the build: generate never
\* throws, and when it returns there is one node per known file and, for every file
\* whose callback did not fail, every edge its imports contribute.
C3_FailureDoesNotAbort ==
    /\ phase # "thrown"
    /\ Returned =>
          /\ Len(result.nodes) = Len(files)
          /\ \A k \in 1..Len(files) : result.nodes[k].fullPath = files[k]
          /\ \A f \in Range(files) :
                (task[f].pc = "done" /\ languageIdOf(f) \in SupportedLanguages) =>
                   \A t \in Range(files) \ {f} :
                      EdgeCount(result.edges, fileToNodeId[f], fileToNodeId[t])
                         = ImportCount(f, t, Len(content[f]))

\* a returned graph where one file failed and another file contributed an edge
C3_Witness ==
    /\ Returned
    /\ \E f, g \in Range(files) :
          /\ task[f].pc = "failed"
          /\ task[g].pc = "done"
          /\ \E k \in 1..Len(result.edges) : result.edges[k].source = fileToNodeId[g]

\* C7: the returned graph has exactly one node per known file and exactly one edge per
\* (source file, import string, resolved target) triple whose resolution completed and
\* whose target is a known file other than the source; in the workspace where a.ts
\* imports "./b" and b.ts and lib/c.ts import nothing, that is 3 nodes and the single
\* edge a -> b.
ScenarioABC ==
    /\ files = <<F_a, F_b, F_c>>
    /\ content = [f \in Range(files) |-> IF f = F_a THEN <<I_relB>> ELSE <<>>]
    /\ languageMapping = [e \in {"ts"} |-> "TypeScript"]

C7_NodesAndEdgesExact ==
    Returned =>
        /\ Len(result.nodes) = Len(files)
        /\ \A k \in 1..Len(files) :
              result.nodes[k].fullPath = files[k] /\ result.nodes[k].id = fileToNodeId[files[k]]
        /\ \A j, k \in 1..Len(files) : result.nodes[j].id = result.nodes[k].id => j = k
        /\ \A k \in 1..Len(result.edges) :
              /\ result.edges[k].source \in NodeIds(result.nodes)
              /\ result.edges[k].target \in NodeIds(result.nodes)
        /\ \A f, t \in Range(files) :
              EdgeCount(result.edges, fileToNodeId[f], fileToNodeId[t])
                 = IF t = f THEN 0 ELSE ImportCount(f, t, task[f].i)
        /\ (ScenarioABC /\ errors = <<>>) =>
              /\ Len(result.nodes) = 3
              /\ result.edges = << [id |-> <<"e", "0", "1">>, source |-> "0", target |-> "1"] >>

\* the a/b/c scenario built without failure
C7_Witness == Returned /\ ScenarioABC /\ errors = <<>> /\ Len(result.edges) = 1

(***************************************************************************)
(* Properties of resolveImport                                              *)
(***************************************************************************)
\* a file probe followed, when it finds nothing, by a directory probe
probe(candidate, allFiles) ==
    LET h == checkFile(candidate) IN IF h = <<>> THEN checkDir(candidate, allFiles) ELSE h

strategyRelative(importPath, sourceFile) ==
    probe(pathResolve(dirname(sourceFile), importPath), files)
strategyRoot(importPath) == probe(pathJoin(rootPath, importPath), files)
strategySrc(importPath) == probe(pathJoin(rootPath, << <<"src">> >> \o importPath), files)
strategyFuzzy(importPath) == fuzzyLoop(importPath, 1, rootPath, files)

RECURSIVE FirstNonEmpty(_)
FirstNonEmpty(rs) ==
    IF rs = <<>> THEN <<>> ELSE IF Head(rs) # <<>> THEN Head(rs) ELSE FirstNonEmpty(Tail(rs))

\* the strategies executed: those up to and including the first with a nonempty result
RECURSIVE RanUpTo(_, _)
RanUpTo(names, rs) ==
    IF rs = <<>> THEN <<>>
    ELSE IF Head(rs) # <<>> THEN <<Head(names)>>
    ELSE <<Head(names)>> \o RanUpTo(Tail(names), Tail(rs))

\* C4 as stated: for every import string the result is that of the first of relative,
\* root-relative, src-relative, fuzzy that yields something, and it is empty only when
\* all four yield nothing.
C4_Original ==
    call.made =>
        call.hits = FirstNonEmpty(<<
            IF startsWithDot(call.importPath)
            THEN strategyRelative(call.importPath, call.sourceFile) ELSE <<>>,
            strategyRoot(call.importPath),
            strategySrc(call.importPath),
            strategyFuzzy(call.importPath) >>)

\* C4 amended: an import string beginning with '.' is resolved by the relative strategy
\* alone; every other import string by the first of root-relative, src-relative, fuzzy
\* that yields something, tried in that order, empty only when all three yield nothing.
C4_StrategyOrder ==
    call.made =>
        IF startsWithDot(call.importPath)
        THEN /\ call.hits = strategyRelative(call.importPath, call.sourceFile)
             /\ call.ran = <<"relative">>
        ELSE LET rs == << strategyRoot(call.importPath), strategySrc(call.importPath),
                          strategyFuzzy(call.importPath) >>
             IN /\ call.hits = FirstNonEmpty(rs)
                /\ call.ran = RanUpTo(<<"root", "src", "fuzzy">>, rs)

\* a call where root-relative found nothing and src-relative did, and a relative call
\* that found nothing although the root-relative probe of the same string would have
C4_Witness ==
    /\ call.made
    /\ \/ /\ ~startsWithDot(call.importPath)
          /\ strategyRoot(call.importPath) = <<>>
          /\ strategySrc(call.importPath) # <<>>
          /\ strategyFuzzy(call.importPath) # strategySrc(call.importPath)
       \/ /\ startsWithDot(call.importPath)
          /\ call.hits = <<>>
          /\ strategyRoot(call.importPath) # <<>>

\* C5: when the root-relative probe of a non-relative import string has a hit, the
\* fuzzy strategy is not run and the result is the root-relative probe's.
C5_RootBeforeFuzzy ==
    (call.made /\ ~startsWithDot(call.importPath) /\ strategyRoot(call.importPath) # <<>>) =>
        /\ "fuzzy" \notin Range(call.ran)
        /\ call.hits = strategyRoot(call.importPath)

\* a call with a root-relative hit where a suffix of the import string also names an
\* unrelated directory holding a known file
C5_Witness ==
    /\ call.made /\ ~startsWithDot(call.importPath)
    /\ strategyRoot(call.importPath) # <<>>
    /\ strategyFuzzy(call.importPath) # <<>>
    /\ Range(strategyFuzzy(call.importPath)) \cap Range(strategyRoot(call.importPath)) = {}

\* C6: every path the resolver returns is a known file.
C6_ResolvedAreKnown == call.made => Range(call.hits) \subseteq Range(files)

\* ---- selection and click detection in the webview

NothingSelected ==
    /\ selectedNodeId = Null /\ selectedClusterId = Null /\ highlightNeighbors = {}
    /\ engineSelectedNodeId = Null

nodeClickStep(id) ==
    /\ pointer = <<"node", id>> /\ pointer' = <<"none">>
    /\ sprite[id].listening /\ ~sprite[id].isDragging

withinWindow(stamp) == stamp # 0 /\ now - stamp < ClickWindow

selectionUnchanged ==
    UNCHANGED <<selectedNodeId, selectedClusterId, highlightNeighbors, engineSelectedNodeId>>

\* C9: a click on a node of the graph less than 300 ms after the previous click on the
\* same node is reported as a double click and selects that node; a click on a node
\* that has no click of its own in the last 300 ms is reported as a single click and
\* changes no selection, also when another node was clicked in that time.
C9_NodeDoubleClick ==
    [][\A id \in NodeUniverse : nodeClickStep(id) =>
          /\ lastReport'.kind = "node" /\ lastReport'.id = id
          /\ IF withinWindow(lastClick[id])
             THEN /\ lastReport'.count = 2
                  /\ id \in layoutNodes =>
                        (selectedNodeId' = id /\ selectedClusterId' = Null)
             ELSE /\ lastReport'.count = 1
                  /\ selectionUnchanged]_vars

\* a double click has selected a node while another node holds a click of the same
\* 300 ms that selected nothing
C9_Witness ==
    /\ lastReport.kind = "node" /\ lastReport.count = 2 /\ lastReport.acted
    /\ selectedNodeId = lastReport.id
    /\ \E n \in NodeUniverse \ {lastReport.id} : withinWindow(lastClick[n])

\* the step in which the plate pid takes a press
platePressStep(pid) ==
    /\ pointer = <<"none">> /\ pointer' = <<"plate">>
    /\ lastReport'.kind = "hull" /\ lastReport'.id = pid

\* C10: a press on a plate less than 300 ms after the previous press on the same
\* plate, with no other click callback between the two, is reported with click count 2.
C10_PlateDoubleClick ==
    [][\A pid \in PlateUniverse :
          (/\ platePressStep(pid)
           /\ lastReport.kind = "hull" /\ lastReport.id = pid
           /\ now - lastReport.at < ClickWindow) => lastReport'.count = 2]_vars

\* C11: a single click on a node or on a plate, and the press and the movement that
\* precede a node click, leave the selected node, the neighbor set and the selected
\* cluster unchanged and start no camera animation; a node or plate click that changes
\* the selection or starts a camera animation has click count 2.
C11_SingleClickNoEffect ==
    [][/\ \A id \in NodeUniverse :
             /\ (nodePointerDown(id) \/ nodePointerMove(id)) => selectionUnchanged
             /\ (nodeClickStep(id) /\ lastReport'.count = 1) =>
                   (selectionUnchanged /\ lastReport'.look = NoLook)
       /\ \A pid \in PlateUniverse :
             (platePressStep(pid) /\ lastReport'.count = 1) =>
                   (selectionUnchanged /\ lastReport'.look = NoLook)]_vars

\* a single click on a node or a plate was made while something was selected, and the
\* selection is still in force
C11_Witness ==
    /\ lastReport.kind \in {"node", "hull"} /\ lastReport.count = 1
    /\ lastReport.over # "none" /\ selectionKind = lastReport.over
    /\ lastReport.look = NoLook /\ lastReport.at = now

NextTouch ==
    \/ tick
    \/ \E g \in Graphs : init(g)
    \/ layoutTick
    \/ \E id \in NodeUniverse : touchDown(id)
    \/ \E id \in NodeUniverse : touchMove(id)
    \/ \E id \in NodeUniverse : touchUp(id)

SpecTouch == InitUI /\ [][NextTouch]_vars

\* the nodes with a drag started and not ended: their sprites listen for onMove / onUp
dragTargets == {id \in NodeUniverse : sprite[id].listening}

\* C13: at most one node is an active drag target.
C13_OneDragTarget == Cardinality(dragTargets) <= 1

\* C14: a node of the layout whose drag has started and not ended has a pinned
\* position (fx, fy), so that no simulation tick moves it.
C14_DraggedNodePinned == \A id \in dragTargets \cap layoutNodes : id \in pinned

\* C16: a pan callback is delivered only during a gesture whose pointer-down landed on
\* the background, never after a pointer-down on a node or on a plate.
C16_PanOnlyFromBackground == lastReport.kind = "pan" => lastReport.id = "stage"

(***************************************************************************)
(* The camera animation on its own                                          *)
(***************************************************************************)
NextCamera ==
    \/ \E look \in LookUniverse : smoothLookAt(look)
    \/ animationFrame

SpecCamera == InitUI /\ [][NextCamera]_vars

\* the loop of the most recent smoothLookAt call, when it is still registered
latestLoop == CHOOSE l \in Range(rafQueue) : l.call = looks

\* C15: once the loop of the most recent smoothLookAt call has run a frame, the camera
\* after every frame is what that loop wrote, whatever earlier loops are still
\* running; when no loop is left the camera position and scale are the target of the
\* most recent call.
C15_LatestLookWins ==
    /\ (\E l \in Range(rafQueue) : l.call = looks /\ l.progress >= 1) =>
           camera = tickValue(latestLoop, latestLoop.progress)
    /\ (looks > 0 /\ rafQueue = <<>>) =>
           camera = [x |-> targetX(lastLook), scale |-> lastLook.scale]

\* two loops are registered and the earlier one computes another camera than the
\* later one
C15_Witness ==
    /\ Len(rafQueue) = 2 /\ rafQueue[2].progress >= 1
    /\ tickValue(rafQueue[1], rafQueue[1].progress) # tickValue(rafQueue[2], rafQueue[2].progress)
    /\ camera = tickValue(rafQueue[2], rafQueue[2].progress)

(***************************************************************************)
(* Wheel zoom                                                              *)
(***************************************************************************)
NextZoom ==
    \/ \E g \in Graphs : init(g)
    \/ \E f \in FitScaleUniverse : zoomConstraints(f)
    \/ \E d \in WheelUniverse : handleWheel(d)

SpecZoom == InitUI /\ [][NextZoom]_vars

\* C17: after every wheel event the scale handed to the zoom callback lies between
\* the current minimum scale and the maximum 5, whatever the wheel delta and whatever
\* minimum the controller has set; the controller never sets a minimum above 0.5
C17_ZoomClamped ==
    [][/\ (\E d \in WheelUniverse : handleWheel(d)) =>
              (minScale <= scale' /\ scale' <= maxScale /\ camera'.scale = scale')
       /\ (\E f \in FitScaleUniverse : zoomConstraints(f)) => minScale' <= minScaleCap]_vars

\* C17 witness: a wheel turn has left the scale clamped at a minimum set by the controller
C17_Witness == minScale = 300 /\ scale = minScale /\ camera.scale = scale

(***************************************************************************)
(* The graph server's cache                                                *)
(***************************************************************************)
\* the server starts with or without workspace storage, and the storage may hold the
\* cache file of an earlier session (version -1)
InitCache ==
    /\ disk = {F_a} /\ files = <<F_a>> /\ languageMapping = [e \in {} |-> ""]
    /\ content = [f \in {F_a} |-> <<>>]
    /\ BuildIdle
    /\ call = NoCall
    /\ UiIdle
    /\ CameraIdle
    /\ ZoomIdle
    /\ HarnessIdle
    /\ storage \in BOOLEAN
    /\ cacheFile \in {NoFile} \cup (IF storage THEN {[state |-> "full", v |-> -1]} ELSE {})
    /\ CacheFresh

NextCache ==
    \/ watcherEvent
    \/ \E r \in Requests : getGraphData_start(r)
    \/ \E r \in Requests : cacheRead_ok(r)
    \/ \E r \in Requests : cacheRead_err(r)
    \/ \E r \in Requests : refresh_done(r)
    \/ \E r \in Requests : refresh_throws(r)
    \/ \E r \in Requests : cacheWrite_start(r)
    \/ \E r \in Requests : cacheWrite_ok(r)
    \/ \E r \in Requests : cacheWrite_err(r)

SpecCache == InitCache /\ [][NextCache]_vars

\* a request that found the flag set (or no cache file) has run the pipeline
dirtyStartRuns == \A r \in Requests : (req[r].pc # "idle" /\ ~req[r].hit) => req[r].ran

\* the flag goes from set to clear only in the step in which a request's writeFile of
\* its freshly generated graph completes
clearedOnlyAfterWrite ==
    (isDirty /\ ~isDirty') =>
        \E r \in Requests : /\ req[r].pc = "writing" /\ req[r].ran
                            /\ req'[r].pc = "done"
                            /\ cacheFile' = [state |-> "full", v |-> req[r].data]

\* C18 (as the code has it): a request made while the flag is clear and a cache file
\* exists returns the graph held by the file, without running the pipeline, when the
\* file reads and parses; when the read fails it runs the pipeline instead. A request
\* made while the flag is set runs the pipeline, and the flag is cleared only after
\* the freshly generated graph has been written to the cache successfully.
C18_CacheContract ==
    [][/\ \A r \in Requests :
            /\ cacheRead_ok(r) => (req'[r].result = cacheFile.v /\ ~req'[r].ran)
            /\ (req'[r].pc = "done" /\ req'[r].hit) => (req'[r].ran <=> req'[r].readFailed)
       /\ dirtyStartRuns'
       /\ clearedOnlyAfterWrite]_vars

\* C18 witness: one request was served from the cache without the pipeline, another,
\* made while the flag was set, ran the pipeline and cleared the flag by its write
C18_Witness ==
    /\ ~isDirty /\ cacheFile.state = "full"
    /\ \E r, q \in Requests :
          /\ req[r].pc = "done" /\ req[r].hit /\ ~req[r].ran /\ req[r].result = cacheFile.v
          /\ req[q].pc = "done" /\ ~req[q].hit /\ req[q].ran /\ req[q].data = cacheFile.v

\* C18 as stated: every request made while the flag is clear and a cache file exists
\* returns without running the pipeline
C18_Original ==
    [][/\ \A r \in Requests : (req'[r].pc = "done" /\ req'[r].hit) => ~req'[r].ran
       /\ dirtyStartRuns'
       /\ clearedOnlyAfterWrite]_vars

\* C19: once the controller has been given a new node/edge set, a render leaves the
\* renderer holding exactly one shape per node of the new set, none left over from a
\* node that is no longer present
C19_ShapesReplacedWholesale == [][layoutTick => nodesMap' = layoutNodes']_vars

\* the nodes joined to id by an edge of the layout, in either direction
joinedTo(id) == {n \in NodeUniverse : <<n, id>> \in layoutLinks \/ <<id, n>> \in layoutLinks}

\* C20: on a node double click the neighbor set handed to the renderer is exactly the
\* set of nodes joined to the selected node by an edge in either direction, and the
\* render that follows styles the selected node, its neighbors and every other node
\* under three different rules
C20_NeighborsAndStyles ==
    [][\A id \in NodeUniverse :
          (nodeClickStep(id) /\ lastReport'.count = 2 /\ id \in layoutNodes) =>
             /\ highlightNeighbors' = joinedTo(id)
             /\ \A n \in layoutNodes :
                   styleOf(n)' = IF n = id THEN SelectedStyle
                                 ELSE IF n \in joinedTo(id) THEN NeighborStyle
                                 ELSE DimmedStyle
             /\ SelectedStyle # NeighborStyle
             /\ NeighborStyle # DimmedStyle
             /\ SelectedStyle # DimmedStyle]_vars

\* C20 witness: node 1, whose only edge comes from node 0, is selected; node 0 is its
\* one neighbor and the three nodes carry three different styles
C20_Witness ==
    /\ layoutNodes = {"0", "1", "2"} /\ layoutLinks = {<<"0", "1">>}
    /\ selectedNodeId = "1" /\ highlightNeighbors = {"0"}
    /\ lastReport.kind = "node" /\ lastReport.id = "1" /\ lastReport.count = 2
    /\ styleOf("1") = SelectedStyle /\ styleOf("0") = NeighborStyle
    /\ styleOf("2") = DimmedStyle

(***************************************************************************)
(* Region computation                                                      *)
(***************************************************************************)
InitLandforms ==
    /\ disk = {F_a} /\ files = <<F_a>> /\ languageMapping = [e \in {} |-> ""]
    /\ content = [f \in {F_a} |-> <<>>]
    /\ BuildIdle
    /\ call = NoCall
    /\ UiIdle
    /\ CameraIdle /\ ZoomIdle /\ CacheIdle
    /\ disposed = FALSE /\ listeners = setupListeners
    /\ parseCall = NoParseCall
    /\ landCall \in {[NoLandCall EXCEPT !.nodes = dirs] : dirs \in SeqsUpTo(DirUniverse, MaxNodes)}

NextLandforms ==
    \/ computeLandforms_call

SpecLandforms == InitLandforms /\ [][NextLandforms]_vars

\* C21: region computation on fewer than 3 nodes returns no landmass and an empty
\* plate list, and invokes neither the Voronoi nor the convex-hull computation
C21_FewNodesNoRegions ==
    (landCall.made /\ Len(landCall.nodes) < 3) =>
        /\ landCall.result.landmass = "null"
        /\ landCall.result.plates = <<>>
        /\ ~landCall.result.voronoi
        /\ ~landCall.result.hull

\* C21 witness: the computation has been called on two nodes
C21_Witness == landCall.made /\ Len(landCall.nodes) = 2

\* C22: region computation on 3 or more nodes returns exactly one plate per distinct
\* directory value among the nodes, the plate's id being the directory value
C22_OnePlatePerDirectory ==
    (landCall.made /\ Len(landCall.nodes) >= 3) =>
        /\ Range(landCall.result.plates) = Range(landCall.nodes)
        /\ Len(landCall.result.plates) = Cardinality(Range(landCall.nodes))

(***************************************************************************)
(* Go import extraction                                                    *)
(***************************************************************************)
InitParse ==
    /\ disk = {F_a} /\ files = <<F_a>> /\ languageMapping = [e \in {} |-> ""]
    /\ content = [f \in {F_a} |-> <<>>]
    /\ BuildIdle
    /\ call = NoCall
    /\ UiIdle
    /\ CameraIdle /\ ZoomIdle /\ CacheIdle
    /\ disposed = FALSE /\ listeners = setupListeners
    /\ landCall = NoLandCall
    /\ parseCall \in {[NoParseCall EXCEPT !.lines = ls] : ls \in SeqsUpTo(LineUniverse, MaxLines)}

NextParse ==
    \/ parseImports_call

SpecParse == InitParse /\ [][NextParse]_vars

\* a text in which every import block is opened, holds entry lines only and is closed
\* by a line of its own, and entry lines occur in blocks only
RECURSIVE goWellFormed(_, _)
goWellFormed(lines, inside) ==
    IF lines = <<>> THEN ~inside
    ELSE LET l == lines[1]
         IN IF inside
            THEN \/ l \in {L_fmt, L_os, L_fmtNote} /\ goWellFormed(Tail(lines), TRUE)
                 \/ l = L_close /\ goWellFormed(Tail(lines), FALSE)
            ELSE \/ l \in {L_single, L_code} /\ goWellFormed(Tail(lines), FALSE)
                 \/ l = L_open /\ goWellFormed(Tail(lines), TRUE)

\* the quoted entries that stand on lines of their own inside the blocks of the text
RECURSIVE goBlockEntries(_, _)
goBlockEntries(lines, inside) ==
    IF lines = <<>> THEN {}
    ELSE LET l == lines[1]
         IN IF inside
            THEN IF l = L_close THEN goBlockEntries(Tail(lines), FALSE)
                 ELSE {unquote[l[2]]} \cup goBlockEntries(Tail(lines), TRUE)
            ELSE goBlockEntries(Tail(lines), l = L_open)

\* the single-line imports of the text
goSingleImports(lines) == {unquote[l[3]] : l \in {m \in Range(lines) : m = L_single}}

\* C23: for Go source text, every quoted entry that stands on its own line inside an
\* import ( ... ) block is extracted as one import string and nothing else is
\* extracted from the block
C23_GoBlockEntries ==
    (parseCall.made /\ goWellFormed(parseCall.lines, FALSE)) =>
        /\ goBlockEntries(parseCall.lines, FALSE) \subseteq Range(parseCall.result)
        /\ Range(parseCall.result) \subseteq
               goBlockEntries(parseCall.lines, FALSE) \cup goSingleImports(parseCall.lines)

\* the block import (\n\t"fmt"\n\t"os"\n) yields exactly fmt and os
C23_Scenario ==
    (parseCall.made /\ parseCall.lines = <<L_open, L_fmt, L_os, L_close>>) =>
        parseCall.result = <<"fmt", "os">>

\* C24: a file whose extract-and-resolve step failed, by a read error or by an error
\* raised while one of its imports was being resolved, contributes no edge to the
\* returned graph
C24_FailedFileNoEdges ==
    phase = "returned" =>
        \A f \in Range(errors) : \A k \in 1..Len(result.edges) :
            result.edges[k].source # fileToNodeId[f]

\* C25: a failing existence or type check of the resolver on one candidate path counts
\* as no match for that candidate: the resolver raises no error, so a file whose
\* import is being resolved goes on to its next import or completes
C25_ResolverNeverRaises ==
    [][\A f \in Range(files) :
          (phase = "running" /\ task[f].pc = "resolving") => task'[f].pc # "failed"]_vars

\* the suffix candidates of an import's segment list, longest first
suffixCandidates(importPath) ==
    LET kept == SelectSeq([i \in 1..Len(importPath) |-> SubSeq(importPath, i, Len(importPath))],
                          LAMBDA suffix : suffix # <<Slash>>)
    IN [i \in 1..Len(kept) |-> pathJoin(rootPath, kept[i])]

\* the first suffix candidate satisfying P, as a one-element set (empty when none does)
firstSuffix(importPath, P(_)) ==
    LET c == suffixCandidates(importPath)
    IN {c[i] : i \in {j \in 1..Len(c) : P(c[j]) /\ \A h \in 1..(j - 1) : ~P(c[h])}}

fuzzyRan == call.made /\ "fuzzy" \in Range(call.ran)

knownChildren(c) == {f \in Range(files) : Front(f) = squeeze(c)}

\* the existing directories that one resolver call expanded, in the order of the
\* strategies: a strategy's candidate after its file probe found nothing, and the
\* suffix candidates that the fuzzy loop tested
dirProbes(importPath, sourceFile) ==
    LET ran == Range(resolveImportRan(importPath, sourceFile, rootPath, files).ran)
        one(c) == IF checkFile(c) = <<>> /\ existsSync(c) /\ isDirectory(c)
                  THEN <<c>> ELSE <<>>
        tested == fuzzyProbes(importPath, 1, rootPath, files)
    IN (IF "relative" \in ran THEN one(pathResolve(dirname(sourceFile), importPath))
        ELSE <<>>)
       \o (IF "root" \in ran THEN one(pathJoin(rootPath, importPath)) ELSE <<>>)
       \o (IF "src" \in ran THEN one(pathJoin(rootPath, << <<"src">> >> \o importPath))
           ELSE <<>>)
       \o (IF "fuzzy" \in ran
           THEN SelectSeq(suffixCandidates(importPath),
                          LAMBDA c : c \in tested /\ existsSync(c) /\ isDirectory(c))
           ELSE <<>>)

\* C27: a directory hit in any strategy expands to exactly the known files whose direct
\* parent is that directory, nested files and unknown files excluded: the first expanded
\* directory that has known files directly in it gives the result of the call
C27_DirectoryHitIsDirectChildren ==
    call.made =>
        LET D == dirProbes(call.importPath, call.sourceFile)
        IN \A i \in 1..Len(D) :
              (knownChildren(D[i]) # {} /\ \A j \in 1..(i - 1) : knownChildren(D[j]) = {})
                  => Range(call.hits) = knownChildren(D[i])

\* the same for the candidates written without a trailing separator
C27_Scenario ==
    (call.made /\ ~hasTrailingSlash(call.importPath)) =>
        LET D == dirProbes(call.importPath, call.sourceFile)
        IN \A i \in 1..Len(D) :
              (knownChildren(D[i]) # {} /\ \A j \in 1..(i - 1) : knownChildren(D[j]) = {})
                  => Range(call.hits) = knownChildren(D[i])

\* C28: whenever no drag is in progress the layout's target energy is 0, no node of the
\* current node set is pinned and panning is enabled, under any sequence of drag
\* starts, drag moves, drag ends and data replacements.
C28_RestAfterDragEnd ==
    dragTargets = {} =>
        /\ alphaTarget = 0
        /\ pinned \cap layoutNodes = {}
        /\ isPanEnabled

\* ---- the webview under several pointers, on the nodes and on the background
NextPan ==
    \/ \E g \in Graphs : init(g)
    \/ layoutTick
    \/ \E id \in NodeUniverse : touchDown(id)
    \/ \E id \in NodeUniverse : touchMove(id)
    \/ \E id \in NodeUniverse : touchUp(id)
    \/ stagePointerDown
    \/ pointerMove
    \/ \E isClick \in BOOLEAN : stagePointerUp(isClick)

SpecPan == InitUI /\ [][NextPan]_vars

\* a pan callback was delivered in this step
panDelivered == lastReport' # lastReport /\ lastReport'.kind = "pan"

\* C29: while panning is disabled no pan callback is delivered: an active pan gesture
\* implies that panning is enabled in every reachable state, disabling pan cancels the
\* gesture in progress, a pointer-down received while disabled starts no pan, and the
\* controller disables panning at a node's drag start and re-enables it at the drag end.
C29_NoPanWhileDisabled ==
    /\ [](panDragging => isPanEnabled)
    /\ [][panDelivered => isPanEnabled]_vars
    /\ [][~isPanEnabled' => ~panDragging']_vars
    /\ [][\A id \in NodeUniverse :
            /\ (~sprite[id].listening /\ sprite'[id].listening) => ~isPanEnabled'
            /\ (sprite[id].listening /\ ~sprite'[id].listening) => isPanEnabled']_vars

\* C29 witness: a press on the background is held while panning is disabled (the press
\* arrived during a node drag, or a node drag started during the pan) and no pan
\* gesture is active
C29_Witness ==
    /\ pointer = <<"stage">> /\ ~isPanEnabled /\ ~panDragging
    /\ dragTargets # {}

\* one animation frame ran and no smoothLookAt call was made in the step
frameStep == rafQueue # <<>> /\ rafQueue' # rafQueue /\ looks' = looks

\* C30: a smoothLookAt call that is not followed by another one terminates after
\* exactly 60 animation frames: its loop is registered with no frame run, every frame
\* runs it once and registers it again until the 60th, which registers nothing; at
\* that last frame the camera scale is the target scale and the camera offset is the
\* screen center minus x times the target scale.
C30_LookEndsOnTarget ==
    /\ [][looks' = looks + 1 =>
            /\ Last(rafQueue').call = looks' /\ Last(rafQueue').progress = 0
            /\ Last(rafQueue').look = lastLook']_vars
    /\ [][frameStep =>
            \A l \in Range(rafQueue) :
               l.call = looks =>
                  IF l.progress + 1 = duration
                  THEN /\ \A m \in Range(rafQueue') : m.call # looks
                       /\ camera'.scale = l.look.scale
                       /\ camera'.x = ScreenCenter - (l.look.x * l.look.scale) \div 1000
                  ELSE /\ l.progress + 1 < duration
                       /\ [l EXCEPT !.progress = @ + 1] \in Range(rafQueue')]_vars

\* C30 witness: the loop of the last call ran its 60th frame after an earlier call had
\* left the camera elsewhere: nothing is registered any more and the camera shows
\* world point 100 under the screen center at scale 1.5
C30_Witness ==
    /\ looks = MaxLooks /\ rafQueue = <<>>
    /\ lastLook = [x |-> 100, scale |-> 1500]
    /\ camera = [x |-> 250, scale |-> 1500]

C32_NoStaleGraphAfterChange ==
    \A r \in Requests : req[r].pc = "done" => req[r].result >= req[r].since

(***************************************************************************)
(* Wheel zoom and camera animation together                                *)
(***************************************************************************)
\* a wheel event received while no animation callback is registered
wheelAtRest(deltaY) ==
    /\ rafQueue = <<>>
    /\ handleWheel(deltaY)

NextZoomLook ==
    \/ \E look \in LookUniverse : smoothLookAt(look)
    \/ animationFrame
    \/ \E d \in WheelUniverse : wheelAtRest(d)

SpecZoomLook == InitUI /\ [][NextZoomLook]_vars

\* C33: whenever no camera animation is running, the zoom scale tracked by the input
\* manager equals the scale applied to the renderer's camera, so that a wheel event
\* changes the displayed scale by its clamped delta from the displayed scale, also after
\* a smoothLookAt has changed the camera scale.
C33_TrackedScaleIsDisplayed == rafQueue = <<>> => scale = camera.scale

(***************************************************************************)
(* The input manager around dispose()                                      *)
(***************************************************************************)
\* a wheel event on the element, delivered to the attached listener
wheelEvent(deltaY) ==
    /\ inputAttached("wheel")
    /\ handleWheel(deltaY)

\* pointer events on the canvas and on the window, delivered to the attached listeners
pointerDownEvent ==
    /\ inputAttached("pointerdown")
    /\ stagePointerDown

pointerMoveEvent ==
    /\ inputAttached("pointermove")
    /\ pointerMove

pointerUpEvent(isClick) ==
    /\ inputAttached("pointerup")
    /\ stagePointerUp(isClick)

NextDispose ==
    \/ dispose
    \/ \E d \in WheelUniverse : wheelEvent(d)
    \/ pointerDownEvent
    \/ pointerMoveEvent
    \/ \E isClick \in BOOLEAN : pointerUpEvent(isClick)

SpecDispose == InitUI /\ [][NextDispose]_vars

\* C34: after the input manager's dispose() its wheel and pointer listeners are removed:
\* no later wheel, pointer-down, pointer-move or pointer-up event invokes the zoom or
\* pan callback or changes the input manager's state.
C34_DisposeDetaches ==
    /\ [](disposed => listeners = {})
    /\ [][disposed =>
            /\ scale' = scale /\ panDragging' = panDragging
            /\ camera' = camera /\ ~panDelivered]_vars

\* C35: whenever a node is selected, the selected id is the id of a node of the current
\* node set and the highlighted neighbor set is the set of nodes adjacent to it in the
\* current edge list, also after init() has replaced the nodes and edges.
C35_SelectionFollowsData ==
    selectedNodeId # Null =>
        /\ selectedNodeId \in layoutNodes
        /\ highlightNeighbors = joinedTo(selectedNodeId)

\* C36: every drag start the renderer reports for a node is followed by its drag end
\* before any further drag start, and drag moves and drag ends are reported for a node
\* only between its drag start and its drag end: a drag start is reported only while no
\* drag is in progress, a move or an end only for the node whose drag is in progress.
C36_DragStartsAndEndsAlternate ==
    [][\A id \in NodeUniverse :
          /\ touchDown(id) => dragTargets = {}
          /\ touchMove(id) => id \in dragTargets
          /\ touchUp(id) => (id \in dragTargets /\ id \notin dragTargets')]_vars

\* the same for the moves and the ends alone
C36_Scenario ==
    [][\A id \in NodeUniverse :
          /\ touchMove(id) => id \in dragTargets
          /\ touchUp(id) => (id \in dragTargets /\ id \notin dragTargets')]_vars

\* C37: in a run of rapid clicks on the same node, every click that comes less than
\* 300 ms after the previous click on that node is reported as a double click, because
\* the node's last-click time is set at every click, single or double; a click on
\* another node leaves the node's time as it is, and so does every step that is no click.
C37_EveryClickStamps ==
    [][/\ \A id \in NodeUniverse : nodeClickStep(id) =>
             /\ lastClick'[id] = now
             /\ \A n \in NodeUniverse \ {id} : lastClick'[n] = lastClick[n]
             /\ lastReport'.kind = "node" /\ lastReport'.id = id
             /\ lastReport'.count = IF withinWindow(lastClick[id]) THEN 2 ELSE 1
       /\ (\A id \in NodeUniverse : ~nodeClickStep(id)) => lastClick' = lastClick]_vars

\* C37 witness: a click on a node that was already selected by a double click is
\* reported as a double click again, one clock step after the run began, while another
\* node holds the time of a click made at the beginning
C37_Witness ==
    /\ lastReport.kind = "node" /\ lastReport.count = 2 /\ lastReport.over = "node"
    /\ lastReport.id = selectedNodeId
    /\ now = StartTime + TimeStep /\ lastReport.at = now
    /\ lastClick[lastReport.id] = now
    /\ \E n \in NodeUniverse \ {lastReport.id} : lastClick[n] = StartTime

(***************************************************************************)
(* The graph build where an import has several file variants               *)
(***************************************************************************)
VariantUniverse == <<F_a, F_b, F_bjs>>
VariantImports == <<I_relB, I_b>>

InitVariants ==
    /\ WorldInit(VariantUniverse)
    /\ \E P \in SubsetsUpTo({F_a, F_b} \X Range(VariantImports), MaxImports) :
          content = [f \in Range(files) |->
                       SelectSeq(VariantImports, LAMBDA s : <<f, s>> \in P)]
    /\ BuildIdle
    /\ call = NoCall
    /\ UiIdle
    /\ SideIdle

NextVariants ==
    \/ generate_start
    \/ \E f \in Range(files) : readFile_ok(f)
    \/ \E f \in Range(files) : readFile_err(f)
    \/ \E f \in Range(files) : parseImports_done(f)
    \/ \E f \in Range(files) : resolveImport_ok(f)
    \/ \E f \in Range(files) : resolveImport_err(f)
    \/ generate_return
    \/ \E importPath \in Range(VariantImports), sourceFile \in Range(files) :
          Resolve(importPath, sourceFile)

SpecVariants == InitVariants /\ [][NextVariants]_vars

\* the candidate of the first strategy for an import of f, and the paths among the
\* candidate and its suffix variants that are files on disk
firstCandidate(f, importPath) ==
    IF startsWithDot(importPath) THEN pathResolve(dirname(f), importPath)
    ELSE pathJoin(rootPath, importPath)

variantsOnDisk(f, importPath) ==
    {w \in fileProbes(firstCandidate(f, importPath)) : w \in disk}

NextLife ==
    \/ tick
    \/ \E g \in Graphs : init(g)
    \/ dispose
    \/ layoutTick
    \/ toggleTheme
    \/ resetCamera
    \/ \E id \in NodeUniverse : nodePointerDown(id)
    \/ \E id \in NodeUniverse : nodePointerMove(id)
    \/ \E id \in NodeUniverse : nodePointerUp(id)

SpecLife == InitUI /\ [][NextLife]_vars

\* C39: the controller invokes region computation and rendering only while it is
\* running: no render call happens before init() has supplied graph data and none after
\* dispose(), whatever layout ticks, clicks, drags or theme toggles occur in those
\* periods; while it is not running no sprite is created and no plate is redrawn.
C39_RendersOnlyWhileRunning ==
    /\ [](rendered => isRunning)
    /\ [][(~isRunning /\ ~isRunning') =>
            (nodesMap' = nodesMap /\ plateGfx' = plateGfx /\ ~rendered')]_vars

\* C39 witness: graph data was supplied and the controller was disposed before the
\* first layout tick: ticks, theme toggles and camera resets are possible, a reset has
\* been requested, and no sprite exists
C39_Witness ==
    /\ disposed /\ ~isRunning /\ ~rendered
    /\ layoutNodes # {} /\ nodesMap = {}
    /\ lastReport.kind = "reset"

====
